---- MODULE Spec2Model ----
(***************************************************************************)
(* Model of the recruiting-data pipeline of IDeA-FBSC:                     *)
(*   frontend/src/utils/dataLoader.js  (loadRecruitingData, filterData)    *)
(*   unnamed/part_000                  (second copy of the same loader)    *)
(*                                                                         *)
(* JavaScript strings are sequences of one-character strings, so that      *)
(* toLowerCase, includes, parseInt and parseFloat are computed character   *)
(* by character.  A missing cell (JavaScript undefined) is the sequence    *)
(* Undefined, whose only element is no character.                          *)
(***************************************************************************)
EXTENDS Integers, Sequences, FiniteSets, TLC

(***************************************************************************)
(* Bounds of the model.                                                    *)
(***************************************************************************)
MaxRows == 2        \* rows in the parsed source (results.data)
MaxCalls == 3       \* loadRecruitingData() invocations in one behaviour
MaxHeaderLen == 3   \* length of the generated header names
MaxFilterRows == 2  \* records handed to filterData

(***************************************************************************)
(* Strings.                                                                *)
(***************************************************************************)
Upper == <<"A","B","C","D","E","F","G","H","I","J","K","L","M",
           "N","O","P","Q","R","S","T","U","V","W","X","Y","Z">>
Lower == <<"a","b","c","d","e","f","g","h","i","j","k","l","m",
           "n","o","p","q","r","s","t","u","v","w","x","y","z">>

\* the lower-case letter of every upper-case letter
LowerOf ==
  [ c \in { Upper[i] : i \in 1..Len(Upper) } |->
      Lower[CHOOSE i \in 1..Len(Upper) : Upper[i] = c] ]

\* String.prototype.toLowerCase on one character
ToLowerChar(c) == IF c \in DOMAIN LowerOf THEN LowerOf[c] ELSE c

\* String.prototype.toLowerCase
ToLowerCase(s) == [i \in 1..Len(s) |-> ToLowerChar(s[i])]

\* the characters the regular expression \s matches (those the model uses)
WhiteSpace == {" ", "\t", "\n", "\r"}

\* s.replace(/\s+/g, '')
StripWhiteSpace(s) == SelectSeq(s, LAMBDA c : c \notin WhiteSpace)

\* s.replace(/([a-z])([A-Z])/g, '$1$2'): every match is replaced by itself
ReplaceCamel(s) == s

\* String.prototype.includes
Includes(s, sub) ==
  \E i \in 0..(Len(s) - Len(sub)) :
    \A j \in 1..Len(sub) : s[i + j] = sub[j]

\* the value of a missing field of a parsed row
Undefined == <<"<undefined>">>

\* JavaScript truthiness of a cell: undefined and "" are falsy
TruthyStr(s) == s # Undefined /\ s # <<>>

(***************************************************************************)
(* Numbers.  parseInt gives an integer or NaN; parseFloat gives a decimal  *)
(* m / 10^e or NaN.                                                        *)
(***************************************************************************)
HexDigits == <<"0","1","2","3","4","5","6","7","8","9","a","b","c","d","e","f">>

\* the value of every hexadecimal digit
HexValueOf ==
  [ c \in { HexDigits[i] : i \in 1..Len(HexDigits) } |->
      (CHOOSE i \in 1..Len(HexDigits) : HexDigits[i] = c) - 1 ]

\* the value of character c as a digit of the radix, or -1
DigitVal(c, radix) ==
  LET lc == ToLowerChar(c)
  IN IF lc \in DOMAIN HexValueOf /\ HexValueOf[lc] < radix
       THEN HexValueOf[lc]
       ELSE -1

\* s without its first n characters
Drop(s, n) == SubSeq(s, n + 1, Len(s))

\* number of leading white space characters of s
RECURSIVE LeadingSpace(_)
LeadingSpace(s) ==
  IF s # <<>> /\ Head(s) \in WhiteSpace THEN 1 + LeadingSpace(Tail(s)) ELSE 0

\* number of leading digits of s in the radix
RECURSIVE DigitRun(_, _)
DigitRun(s, radix) ==
  IF s # <<>> /\ DigitVal(Head(s), radix) >= 0
    THEN 1 + DigitRun(Tail(s), radix)
    ELSE 0

\* the value of the digit string s (all digits of the radix), most significant first
RECURSIVE DigitsValue(_, _)
DigitsValue(s, radix) ==
  IF s = <<>> THEN 0
  ELSE DigitsValue(SubSeq(s, 1, Len(s) - 1), radix) * radix + DigitVal(s[Len(s)], radix)

NaN == [nan |-> TRUE, val |-> 0]

\* parseInt(cell), no radix argument: white space, sign, 0x prefix, digits
ParseInt(cell) ==
  LET s0   == Drop(cell, LeadingSpace(cell))
      neg  == s0 # <<>> /\ Head(s0) = "-"
      s1   == IF s0 # <<>> /\ Head(s0) \in {"-", "+"} THEN Tail(s0) ELSE s0
      hex  == Len(s1) >= 2 /\ s1[1] = "0" /\ s1[2] \in {"x", "X"}
      rad  == IF hex THEN 16 ELSE 10
      s2   == IF hex THEN Drop(s1, 2) ELSE s1
      n    == DigitRun(s2, rad)
      v    == DigitsValue(SubSeq(s2, 1, n), rad)
  IN IF n = 0 THEN NaN ELSE [nan |-> FALSE, val |-> IF neg THEN -v ELSE v]

\* a coercion whose fallback is -1
IntOrMinusOne(cell) ==
  LET r == ParseInt(cell) IN IF r.nan THEN -1 ELSE r.val

\* parseInt(cell) || 0
IntOrZero(cell) ==
  LET r == ParseInt(cell) IN IF r.nan \/ r.val = 0 THEN 0 ELSE r.val

\* 10^n
RECURSIVE Pow10(_)
Pow10(n) == IF n = 0 THEN 1 ELSE 10 * Pow10(n - 1)

\* a decimal m / 10^e without trailing zeros in its fraction
RECURSIVE Normalize(_, _)
Normalize(m, e) ==
  IF m = 0 THEN [m |-> 0, e |-> 0]
  ELSE IF e > 0 /\ m % 10 = 0 THEN Normalize(m \div 10, e - 1)
  ELSE [m |-> m, e |-> e]

NaNFloat == [nan |-> TRUE, m |-> 0, e |-> 0]

\* parseFloat(cell): white space, sign, digits, optional fraction.  (Cells of
\* the model hold no exponent and no "Infinity".)
ParseFloat(cell) ==
  LET s0   == Drop(cell, LeadingSpace(cell))
      neg  == s0 # <<>> /\ Head(s0) = "-"
      s1   == IF s0 # <<>> /\ Head(s0) \in {"-", "+"} THEN Tail(s0) ELSE s0
      ni   == DigitRun(s1, 10)
      s2   == Drop(s1, ni)
      dot  == s2 # <<>> /\ Head(s2) = "."
      nf   == IF dot THEN DigitRun(Tail(s2), 10) ELSE 0
      iv   == DigitsValue(SubSeq(s1, 1, ni), 10)
      fv   == IF dot THEN DigitsValue(SubSeq(Tail(s2), 1, nf), 10) ELSE 0
      mag  == iv * Pow10(nf) + fv
      d    == Normalize(IF neg THEN -mag ELSE mag, nf)
  IN IF ni + nf = 0 THEN NaNFloat ELSE [nan |-> FALSE, m |-> d.m, e |-> d.e]

\* the coordinate value null
Null == [null |-> TRUE, m |-> 0, e |-> 0]

\* parseFloat(cell) || null
FloatOrNull(cell) ==
  LET r == ParseFloat(cell)
  IN IF r.nan \/ r.m = 0 THEN Null ELSE [null |-> FALSE, m |-> r.m, e |-> r.e]

\* parseFloat(cell) || 0
FloatOrZero(cell) ==
  LET r == ParseFloat(cell)
  IN IF r.nan THEN [m |-> 0, e |-> 0] ELSE [m |-> r.m, e |-> r.e]

\* JavaScript truthiness of a coerced coordinate: null and 0 are falsy
TruthyCoord(x) == ~x.null /\ x.m # 0

(***************************************************************************)
(* Rows of the parsed source.  Papa.parse (header: true, no dynamicTyping) *)
(* hands `complete` one object per line whose fields are strings; a field  *)
(* the line does not have is undefined.                                    *)
(***************************************************************************)
S_USA == <<"U","S","A">>
S_CAN == <<"C","A","N">>
S_OhioState == <<"O","h","i","o"," ","S","t","a","t","e">>
S_Alabama == <<"A","l","a","b","a","m","a">>
S_2023 == <<"2","0","2","3">>
S_2024 == <<"2","0","2","4">>
S_2025 == <<"2","0","2","5">>

\* a well-formed line of recruiting_data.csv
BaseRow ==
  [ name          |-> <<"J","o","e">>,
    year          |-> S_2024,
    classYear     |-> S_2024,
    committedTo   |-> S_OhioState,
    school        |-> <<"A">>,
    city          |-> <<"X">>,
    stateProvince |-> <<"O","H">>,
    country       |-> S_USA,
    latitude      |-> <<"4","0",".","1">>,
    longitude     |-> <<"-","8","3",".","5","0">>,
    ranking       |-> <<"1","2">>,
    stars         |-> <<"4">>,
    height        |-> <<"7","4",".","5">>,
    weight        |-> <<"2","1","0">>,
    rating        |-> <<"0",".","9","1">> ]

\* a second well-formed line, of another school, college and country
OtherRow ==
  [ BaseRow EXCEPT !.name = <<"A","l">>, !.classYear = S_2023,
                   !.committedTo = S_Alabama, !.school = <<"B">>,
                   !.city = <<"Y">>, !.stateProvince = <<"O","N">>,
                   !.country = S_CAN,
                   !.latitude = <<" ","4","3">>, !.longitude = <<"-","7","9",".">> ]

\* the lines the source may hold: the two well-formed ones, and BaseRow with
\* one or more cells empty, missing, zero or not numeric
RawRows ==
  { BaseRow, OtherRow,
    [BaseRow EXCEPT !.classYear = <<>>],
    [BaseRow EXCEPT !.classYear = <<"0">>],
    [BaseRow EXCEPT !.classYear = <<"n","/","a">>],
    [BaseRow EXCEPT !.classYear = <<"-","3">>],
    [BaseRow EXCEPT !.classYear = <<"2","0","2","5","x">>],
    [BaseRow EXCEPT !.committedTo = <<>>],
    [BaseRow EXCEPT !.school = Undefined],
    [BaseRow EXCEPT !.latitude = <<"n","o","r","t","h">>],
    [BaseRow EXCEPT !.latitude = <<"0">>],
    [BaseRow EXCEPT !.longitude = <<"0",".","0">>],
    [BaseRow EXCEPT !.longitude = Undefined],
    [BaseRow EXCEPT !.year = <<"0","x","1","F">>, !.ranking = <<>>,
                    !.stars = <<"f","i","v","e">>, !.height = Undefined,
                    !.weight = <<"?">>, !.rating = <<".">>] }

\* all sequences of at most n elements of S
SeqsUpTo(S, n) == UNION { [1..k -> S] : k \in 0..n }

\* a first filter that forgets the school
FirstFilterNoSchool(row) ==
  TruthyStr(row.classYear) /\ TruthyStr(row.committedTo)

\* a first filter that forgets the college
FirstFilterNoCollege(row) ==
  TruthyStr(row.classYear) /\ TruthyStr(row.school)

\* results.data.filter(row => row.classYear && row.committedTo && row.school)
FirstFilter(row) ==
  TruthyStr(row.classYear) /\ TruthyStr(row.committedTo) /\ TruthyStr(row.school)

\* the object literal of results.data.map(row => ({...row, year: ..., ...}))
Coerce(row) ==
  [ row EXCEPT !.year      = IntOrZero(row.year),
               !.ranking   = IntOrZero(row.ranking),
               !.height    = FloatOrZero(row.height),
               !.weight    = FloatOrZero(row.weight),
               !.stars     = IntOrZero(row.stars),
               !.rating    = FloatOrZero(row.rating),
               !.classYear = IntOrZero(row.classYear),
               !.latitude  = FloatOrNull(row.latitude),
               !.longitude = FloatOrNull(row.longitude) ]

\* a second filter that forgets the class year
SecondFilterNoYear(rec) ==
  TruthyCoord(rec.latitude) /\ TruthyCoord(rec.longitude)

\* .filter(row => row.latitude && row.longitude && row.classYear > 0)
SecondFilter(rec) ==
  TruthyCoord(rec.latitude) /\ TruthyCoord(rec.longitude) /\ rec.classYear > 0

\* rows.map(row => ({...row, year: ..., ...}))
CoerceAll(rows) == [i \in 1..Len(rows) |-> Coerce(rows[i])]

\* processedData of `complete`: filter, map, filter
ProcessData(data) ==
  SelectSeq(CoerceAll(SelectSeq(data, FirstFilter)), SecondFilter)

(***************************************************************************)
(* filterData                                                              *)
(***************************************************************************)
S_all == <<"a","l","l">>

\* the first data.filter of filterData
YearAndLocation(row, startYear, endYear) ==
  /\ row.classYear >= startYear
  /\ row.classYear <= endYear
  /\ TruthyCoord(row.latitude)
  /\ TruthyCoord(row.longitude)
  /\ row.country = S_USA

\* a college test that asks for the whole name
CollegeMatchesExact(row, college) ==
  ToLowerCase(row.committedTo) = ToLowerCase(college)

\* row.committedTo.toLowerCase().includes(college.toLowerCase())
CollegeMatches(row, college) ==
  Includes(ToLowerCase(row.committedTo), ToLowerCase(college))

\* a filterData that leaves out the first record it selected
FilterDataSkipFirst(data, startYear, endYear, college) ==
  LET filtered == SelectSeq(data, LAMBDA row : YearAndLocation(row, startYear, endYear))
      matched == IF college # S_all
                   THEN SelectSeq(filtered, LAMBDA row : CollegeMatches(row, college))
                   ELSE filtered
  IN IF matched = <<>> THEN matched ELSE Tail(matched)

\* filterData(data, startYear, endYear, college)
FilterData(data, startYear, endYear, college) ==
  LET filtered == SelectSeq(data, LAMBDA row : YearAndLocation(row, startYear, endYear))
  IN IF college # S_all
       THEN SelectSeq(filtered, LAMBDA row : CollegeMatches(row, college))
       ELSE filtered

(***************************************************************************)
(* transformHeader, the two copies.                                        *)
(***************************************************************************)
H_class_year == <<"c","l","a","s","s","_","y","e","a","r">>
H_classYear == <<"c","l","a","s","s","Y","e","a","r">>
H_stateProvince == <<"s","t","a","t","e","P","r","o","v","i","n","c","e">>
H_stateprovince == ToLowerCase(H_stateProvince)
H_committedTo == <<"c","o","m","m","i","t","t","e","d","T","o">>
H_committedto == ToLowerCase(H_committedTo)

\* transformHeader of frontend/src/utils/dataLoader.js: clean first, then map
TransformHeaderUtils(header) ==
  LET cleanHeader == StripWhiteSpace(ReplaceCamel(ToLowerCase(header)))
  IN IF cleanHeader = H_class_year THEN H_classYear
     ELSE IF cleanHeader = H_stateprovince THEN H_stateProvince
     ELSE IF cleanHeader = H_committedto THEN H_committedTo
     ELSE cleanHeader

\* transformHeader of the second copy (unnamed/part_000): map first, then clean
TransformHeaderPart(header) ==
  IF header = H_class_year THEN H_classYear
  ELSE IF header = H_stateProvince THEN H_stateProvince
  ELSE IF header = H_committedTo THEN H_committedTo
  ELSE StripWhiteSpace(ReplaceCamel(ToLowerCase(header)))

(***************************************************************************)
(* The functions over the loaded records: getUniqueColleges, getYearRange  *)
(* and the three aggregations, in the two copies of the loader.            *)
(***************************************************************************)
\* row.f of a JavaScript object: undefined when the object has no property f
Field(row, f) == IF f \in DOMAIN row THEN row[f] ELSE Undefined

\* the printable characters in UTF-16 code unit order, from 0x20 to 0x7E
\* (without the quote, the backslash and the backtick, which no cell holds)
AsciiChars ==
  << " ", "!", "#", "$", "%", "&", "'", "(", ")", "*", "+", ",", "-",
     ".", "/", "0", "1", "2", "3", "4", "5", "6", "7", "8", "9", ":", ";",
     "<", "=", ">", "?", "@", "A", "B", "C", "D", "E", "F", "G", "H", "I",
     "J", "K", "L", "M", "N", "O", "P", "Q", "R", "S", "T", "U", "V", "W",
     "X", "Y", "Z", "[", "]", "^", "_", "a", "b", "c", "d", "e",
     "f", "g", "h", "i", "j", "k", "l", "m", "n", "o", "p", "q", "r", "s",
     "t", "u", "v", "w", "x", "y", "z", "{", "|", "}", "~" >>

\* the rank of each character in code unit order
CodeOf ==
  [c \in {AsciiChars[i] : i \in DOMAIN AsciiChars} |->
     CHOOSE i \in DOMAIN AsciiChars : AsciiChars[i] = c]

\* a < b for strings, as the default comparison of Array.prototype.sort
\* orders them: code unit by code unit, a proper prefix first
RECURSIVE StrLess(_, _)
StrLess(a, b) ==
  IF b = <<>> THEN FALSE
  ELSE IF a = <<>> THEN TRUE
  ELSE IF a[1] = b[1] THEN StrLess(Tail(a), Tail(b))
  ELSE CodeOf[a[1]] < CodeOf[b[1]]

\* the order of sort() without a comparator: undefined after every string
SortBefore(x, y) ==
  /\ x # Undefined
  /\ (y = Undefined \/ StrLess(x, y))

\* arr.sort(): the elements of arr in the default order
RECURSIVE SortDefault(_)
SortDefault(arr) ==
  IF arr = <<>> THEN <<>>
  ELSE LET x == arr[Len(arr)]
           rest == SortDefault(SubSeq(arr, 1, Len(arr) - 1))
           k == Cardinality({i \in DOMAIN rest : ~SortBefore(x, rest[i])})
       IN SubSeq(rest, 1, k) \o <<x>> \o SubSeq(rest, k + 1, Len(rest))

\* [...new Set(arr)]: the elements of arr, each at its first occurrence
RECURSIVE SetSpread(_)
SetSpread(arr) ==
  IF arr = <<>> THEN <<>>
  ELSE LET rest == SetSpread(SubSeq(arr, 1, Len(arr) - 1))
           x == arr[Len(arr)]
       IN IF \E i \in DOMAIN rest : rest[i] = x THEN rest ELSE Append(rest, x)

\* data.map(row => row.f)
Pluck(data, f) == [i \in 1..Len(data) |-> Field(data[i], f)]

\* getUniqueColleges of frontend/src/utils/dataLoader.js reads row.committedto
GetUniqueCollegesUtils(data) == SortDefault(SetSpread(Pluck(data, "committedto")))

\* getUniqueColleges of the second copy reads row.committedTo
GetUniqueCollegesPart(data) == SortDefault(SetSpread(Pluck(data, "committedTo")))

\* the range getYearRange falls back to
DefaultYearRange == [min |-> 2023, max |-> 2025]

\* a year test that lets 2030 through
ValidYearInclusive(year) == year > 0 /\ year <= 2030

\* .filter(year => year > 0 && year < 2030)
ValidYear(year) == year > 0 /\ year < 2030

\* Math.min(...years) and Math.max(...years) of a non-empty array
MathMin(years) ==
  CHOOSE y \in {years[i] : i \in DOMAIN years} : \A i \in DOMAIN years : y <= years[i]
MathMax(years) ==
  CHOOSE y \in {years[i] : i \in DOMAIN years} : \A i \in DOMAIN years : y >= years[i]

\* getYearRange(data), data being null (NoArray) or an array
GetYearRange(data) ==
  IF data.isNull \/ Len(data.arr) = 0 THEN DefaultYearRange
  ELSE LET years == SelectSeq(Pluck(data.arr, "classYear"), ValidYear)
       IN IF Len(years) = 0 THEN DefaultYearRange
          ELSE [min |-> MathMin(years), max |-> MathMax(years)]

\* `${x}` of a string or of undefined
Template(x) ==
  IF x = Undefined THEN <<"u","n","d","e","f","i","n","e","d">> ELSE x

\* `${a}|${b}`
PipeKey(a, b) == Template(a) \o <<"|">> \o Template(b)

\* new Map(): the keys in insertion order and the value of each
EmptyMap == [keys |-> <<>>, values |-> <<>>]

\* a loop body that counts a key once only
MapStepNoIncrement(m, key, entry) ==
  IF \E i \in DOMAIN m.keys : m.keys[i] = key
    THEN m
    ELSE [keys |-> Append(m.keys, key), values |-> Append(m.values, entry)]

\* the body of the forEach of the three aggregations:
\* if (map.has(key)) map.get(key).count += 1; else map.set(key, entry)
MapStep(m, key, entry) ==
  IF \E i \in DOMAIN m.keys : m.keys[i] = key
    THEN LET i == CHOOSE i \in DOMAIN m.keys : m.keys[i] = key
         IN [m EXCEPT !.values[i].count = @ + 1]
    ELSE [keys |-> Append(m.keys, key), values |-> Append(m.values, entry)]

\* pathwayMap after data.forEach
RECURSIVE PathwayMap(_)
PathwayMap(data) ==
  IF data = <<>> THEN EmptyMap
  ELSE LET row == data[Len(data)]
       IN MapStep(PathwayMap(SubSeq(data, 1, Len(data) - 1)),
                  PipeKey(Field(row, "school"), Field(row, "committedTo")),
                  [ school  |-> Field(row, "school"),
                    college |-> Field(row, "committedTo"),
                    city    |-> Field(row, "city"),
                    state   |-> Field(row, "stateProvince"),
                    lat     |-> Field(row, "latitude"),
                    lon     |-> Field(row, "longitude"),
                    count   |-> 1 ])

\* aggregatePathways(data): Array.from(pathwayMap.values())
AggregatePathways(data) == PathwayMap(data).values

\* cityMap after data.forEach, the state being read from the property named
\* stateField
RECURSIVE CityMap(_, _)
CityMap(data, stateField) ==
  IF data = <<>> THEN EmptyMap
  ELSE LET row == data[Len(data)]
       IN MapStep(CityMap(SubSeq(data, 1, Len(data) - 1), stateField),
                  PipeKey(Field(row, "city"), Field(row, stateField)),
                  [ city  |-> Field(row, "city"),
                    state |-> Field(row, stateField),
                    lat   |-> Field(row, "latitude"),
                    lon   |-> Field(row, "longitude"),
                    count |-> 1 ])

\* aggregateCities of frontend/src/utils/dataLoader.js reads row.stateprovince
AggregateCitiesUtils(data) == CityMap(data, "stateprovince").values

\* aggregateCities of the second copy reads row.stateProvince
AggregateCitiesPart(data) == CityMap(data, "stateProvince").values

\* collegeMap after data.forEach, the college being read from the property
\* named collegeField
RECURSIVE CollegeMap(_, _)
CollegeMap(data, collegeField) ==
  IF data = <<>> THEN EmptyMap
  ELSE LET row == data[Len(data)]
       IN MapStep(CollegeMap(SubSeq(data, 1, Len(data) - 1), collegeField),
                  Field(row, collegeField),
                  [ college |-> Field(row, collegeField), count |-> 1 ])

\* aggregateColleges of frontend/src/utils/dataLoader.js reads row.committedto
AggregateCollegesUtils(data) == CollegeMap(data, "committedto").values

\* aggregateColleges of the second copy reads row.committedTo
AggregateCollegesPart(data) == CollegeMap(data, "committedTo").values

(***************************************************************************)
(* State.                                                                  *)
(***************************************************************************)
VARIABLES
  cachedData,   \* module variable cachedData: null or the processed array
  dataPromise,  \* module variable dataPromise: 0 (null) or an index of promises
  promises,     \* the promises made by `new Promise`, in creation order
  inflight,     \* the Papa.parse requests that have not called back yet
  sourceUp,     \* whether /data/recruiting_data.csv can be downloaded now
  results,      \* results.data of the last `complete` callback
  pend,         \* per caller: "idle", "waiting", "fulfilled" or "rejected"
  waitOn,       \* per waiting caller: the promise its call adopted
  got,          \* per caller: the array its last settled call returned
  calls,        \* number of loadRecruitingData() invocations so far
  lastCaller,   \* the caller of the latest invocation
  released,     \* the callers whose await the latest callback resumed
  pageData,     \* the last result of filterData on the loaded records
  hdr,          \* a column name of the source
  hdrOut,       \* what each copy of transformHeader makes of hdr
  fIn,          \* arguments of a filterData call
  fOut,         \* its result
  fAgain,       \* the result of filterData on fOut with the same arguments
  pIn,          \* results.data handed to the row processing of `complete`
  pOut,         \* its processedData
  aIn,          \* loaded records handed to a function of the loader
  aOut          \* the function that ran on aIn, and what it returned

loadVars == <<cachedData, dataPromise, promises, inflight, sourceUp, results,
              pend, waitOn, got, calls, lastCaller, released, pageData>>
hdrVars == <<hdr, hdrOut>>
filterVars == <<fIn, fOut, fAgain>>
processVars == <<pIn, pOut>>
aggVars == <<aIn, aOut>>

\* the state of a page, ConnectionsMap or SizeGraphsMap, and what surrounds it
VARIABLES
  page,             \* which of the two components is mounted
  lib,              \* which copy of the loader the component imports
  currentYear,      \* new Date().getFullYear()
  loadState,        \* the promise of loadRecruitingData(): pending or settled
  recruitingData,   \* useState `data`: null or the loaded records
  loading,          \* useState `loading`
  error,            \* useState `error`: null (FALSE) or set (TRUE)
  selectedCollege,  \* useState `selectedCollege`
  selectedYears,    \* useState `selectedYears`
  viewMode,         \* useState `viewMode` of SizeGraphsMap
  colleges,         \* useState `colleges`
  yearRange         \* useState `yearRange`

pageVars == <<page, lib, currentYear, loadState, recruitingData, loading, error,
              selectedCollege, selectedYears, viewMode, colleges, yearRange>>

\* what the geocode-based pages, ConnectionsMap and CirclesMap, keep besides
\* page, loadState, loading, error, selectedCollege and yearRange
VARIABLES
  allData,          \* useState `allData`: null or results.data of Papa.parse
  geocodeData,      \* useState `geocodeData`: null or the parsed geocode_cache.json
  showAllColleges,  \* useState `showAllColleges`
  mapType           \* useState `mapType` of CirclesMap

geoVars == <<allData, geocodeData, showAllColleges, mapType>>

\* one function made by debounce(func, wait) or throttle(func, limit), the
\* timers of the host and the clock
VARIABLES
  util,        \* which of the two made the function
  now,         \* the clock, in units of time
  wait,        \* the `wait` of debounce, the `limit` of throttle
  timers,      \* the timers made by setTimeout, in creation order
  timeout,     \* the `timeout` of debounce's closure: 0 (undefined) or a timer id
  inThrottle,  \* the `inThrottle` of throttle's closure
  elog         \* the calls of the function and the invocations of func, in order

timerVars == <<util, now, wait, timers, timeout, inThrottle, elog>>

\* loadCollegeCoords: the module variable and the calls in progress
VARIABLES
  collegeCoords,  \* module variable collegeCoords: null or the mapping
  coordCalls      \* the calls of loadCollegeCoords(), in order of invocation

coordVars == <<collegeCoords, coordCalls>>

uiVars == <<pageVars, geoVars, timerVars, coordVars>>
vars == <<loadVars, hdrVars, filterVars, processVars, aggVars, uiVars>>

\* the components that load the data
Callers == {"ConnectionsMap", "SizeGraphsMap"}

NoArray == [isNull |-> TRUE, arr |-> <<>>]
Array(a) == [isNull |-> FALSE, arr |-> a]

\* the lines of the source the pages load: two well-formed lines, and lines
\* without school, with a latitude or class year that is no number, and with
\* other cells that are no numbers
SourceRows ==
  { BaseRow, OtherRow,
    [BaseRow EXCEPT !.school = Undefined],
    [BaseRow EXCEPT !.latitude = <<"n","o","r","t","h">>],
    [BaseRow EXCEPT !.classYear = <<"n","/","a">>],
    [BaseRow EXCEPT !.year = <<"0","x","1","F">>, !.ranking = <<>>,
                    !.stars = <<"f","i","v","e">>, !.height = Undefined,
                    !.weight = <<"?">>, !.rating = <<".">>] }

\* the sources `complete` may be handed
SourceData == SeqsUpTo(SourceRows, MaxRows)

S_Ohio == <<"O","h","i","o">>

\* the result of a function that has not run yet
NotRun == <<"<not run>">>

NoHeader == [utils |-> NotRun, part |-> NotRun]
NoFilterArgs == [data |-> <<>>, startYear |-> 0, endYear |-> 0, college |-> <<>>]

HdrIdle == hdr = <<>> /\ hdrOut = NoHeader
FilterIdle == fIn = NoFilterArgs /\ fOut = NoArray /\ fAgain = NoArray
ProcessIdle == pIn = <<>> /\ pOut = NoArray

\* no function has run
NoResult == [fn |-> "none", args |-> <<>>, threw |-> FALSE, val |-> <<>>]

AggIdle == aIn = <<>> /\ aOut = NoResult

\* no page is mounted
PageIdle ==
  /\ page = "none"
  /\ lib = "none"
  /\ currentYear = 0
  /\ loadState = "none"
  /\ recruitingData = NoArray
  /\ loading = FALSE
  /\ error = FALSE
  /\ selectedCollege = <<>>
  /\ selectedYears = <<0, 0>>
  /\ viewMode = "none"
  /\ colleges = <<>>
  /\ yearRange = [min |-> 0, max |-> 0]

\* null, for a lookup object
NoLookup == [isNull |-> TRUE, entries |-> <<>>]

\* no geocode-based page is mounted
GeoIdle ==
  /\ allData = NoArray
  /\ geocodeData = NoLookup
  /\ showAllColleges = FALSE
  /\ mapType = "none"

\* no debounced or throttled function was made
TimerIdle ==
  /\ util = "none"
  /\ now = 0
  /\ wait = 0
  /\ timers = <<>>
  /\ timeout = 0
  /\ inThrottle = FALSE
  /\ elog = <<>>

\* loadCollegeCoords is not in use
CoordIdle ==
  /\ collegeCoords = NoLookup
  /\ coordCalls = <<>>

UiIdle == PageIdle /\ GeoIdle /\ TimerIdle /\ CoordIdle

InitLoad ==
  /\ cachedData = NoArray
  /\ dataPromise = 0
  /\ promises = <<>>
  /\ inflight = {}
  /\ sourceUp \in BOOLEAN
  /\ results = <<>>
  /\ pend = [c \in Callers |-> "idle"]
  /\ waitOn = [c \in Callers |-> 0]
  /\ got = [c \in Callers |-> <<>>]
  /\ calls = 0
  /\ lastCaller = "none"
  /\ released = {}
  /\ pageData = NoArray

Init == InitLoad /\ HdrIdle /\ FilterIdle /\ ProcessIdle /\ AggIdle /\ UiIdle

(***************************************************************************)
(* loadRecruitingData                                                      *)
(***************************************************************************)
\* if (cachedData): an array, even an empty one, is truthy
CacheHit == ~cachedData.isNull

\* if (dataPromise)
PromiseHit == dataPromise # 0

\* a loader that shares no in-flight load
LoadBranchNoShare ==
  IF CacheHit THEN "cached" ELSE "start"

\* a loader that remembers a load only while it is in flight
LoadBranchInFlightOnly ==
  IF PromiseHit /\ promises[dataPromise].state = "pending" THEN "shared" ELSE "start"

\* which return statement of loadRecruitingData a call reaches
LoadBranch ==
  IF CacheHit THEN "cached"
  ELSE IF PromiseHit THEN "shared"
  ELSE "start"

\* the caller's await on a promise that is already settled or still pending
Adopt(c, p) ==
  /\ pend' = [pend EXCEPT ![c] = IF promises'[p].state = "pending" THEN "waiting"
                                  ELSE promises'[p].state]
  /\ waitOn' = [waitOn EXCEPT ![c] = IF promises'[p].state = "pending" THEN p ELSE 0]
  /\ got' = [got EXCEPT ![c] = IF promises'[p].state = "fulfilled"
                                 THEN promises'[p].value ELSE <<>>]

\* one invocation of loadRecruitingData() by caller c, up to its return
Call(c) ==
  /\ pend[c] # "waiting"
  /\ calls < MaxCalls
  /\ calls' = calls + 1
  /\ lastCaller' = c
  /\ CASE LoadBranch = "cached" ->
            /\ pend' = [pend EXCEPT ![c] = "fulfilled"]
            /\ got' = [got EXCEPT ![c] = cachedData.arr]
            /\ waitOn' = [waitOn EXCEPT ![c] = 0]
            /\ UNCHANGED <<promises, dataPromise, inflight>>
       [] LoadBranch = "shared" ->
            /\ UNCHANGED <<promises, dataPromise, inflight>>
            /\ Adopt(c, dataPromise)
       [] LoadBranch = "start" ->
            /\ promises' = Append(promises, [state |-> "pending", value |-> <<>>])
            /\ dataPromise' = Len(promises) + 1
            /\ inflight' = inflight \cup {Len(promises) + 1}
            /\ Adopt(c, Len(promises) + 1)
  /\ UNCHANGED <<cachedData, sourceUp, results, released, pageData>>
  /\ UNCHANGED <<hdrVars, filterVars, processVars, aggVars, uiVars>>

\* the reactions of the callers awaiting promise p once it settles
Settle(p, state, value) ==
  /\ promises' = [promises EXCEPT ![p] = [state |-> state, value |-> value]]
  /\ pend' = [c \in Callers |-> IF pend[c] = "waiting" /\ waitOn[c] = p
                                  THEN state ELSE pend[c]]
  /\ waitOn' = [c \in Callers |-> IF waitOn[c] = p THEN 0 ELSE waitOn[c]]
  /\ got' = [c \in Callers |-> IF pend[c] = "waiting" /\ waitOn[c] = p
                                 THEN value ELSE got[c]]
  /\ released' = {c \in Callers : pend[c] = "waiting" /\ waitOn[c] = p}

\* the `complete` callback of request p, handed results.data = data
PapaComplete(p, data) ==
  /\ p \in inflight
  /\ sourceUp
  /\ inflight' = inflight \ {p}
  /\ results' = data
  /\ cachedData' = Array(ProcessData(data))
  /\ Settle(p, "fulfilled", ProcessData(data))
  /\ UNCHANGED <<dataPromise, sourceUp, calls, lastCaller, pageData>>
  /\ UNCHANGED <<hdrVars, filterVars, processVars, aggVars, uiVars>>

\* an `error` callback that starts the download again by itself
PapaErrorRetry(p) ==
  /\ p \in inflight
  /\ ~sourceUp
  /\ Len(promises) < MaxCalls
  /\ pend' = [c \in Callers |-> IF pend[c] = "waiting" /\ waitOn[c] = p
                                  THEN "rejected" ELSE pend[c]]
  /\ waitOn' = [c \in Callers |-> IF waitOn[c] = p THEN 0 ELSE waitOn[c]]
  /\ got' = [c \in Callers |-> IF pend[c] = "waiting" /\ waitOn[c] = p
                                 THEN <<>> ELSE got[c]]
  /\ released' = {c \in Callers : pend[c] = "waiting" /\ waitOn[c] = p}
  /\ promises' = Append([promises EXCEPT ![p] = [state |-> "rejected", value |-> <<>>]],
                        [state |-> "pending", value |-> <<>>])
  /\ dataPromise' = Len(promises) + 1
  /\ inflight' = (inflight \ {p}) \cup {Len(promises) + 1}
  /\ UNCHANGED <<cachedData, sourceUp, results, calls, lastCaller, pageData>>
  /\ UNCHANGED <<hdrVars, filterVars, processVars, aggVars, uiVars>>

\* the `error` callback of request p
PapaError(p) ==
  /\ p \in inflight
  /\ ~sourceUp
  /\ inflight' = inflight \ {p}
  /\ Settle(p, "rejected", <<>>)
  /\ UNCHANGED <<cachedData, dataPromise, sourceUp, results, calls, lastCaller, pageData>>
  /\ UNCHANGED <<hdrVars, filterVars, processVars, aggVars, uiVars>>

\* the source becomes reachable or unreachable
SourceChange ==
  /\ sourceUp' = ~sourceUp
  /\ UNCHANGED <<cachedData, dataPromise, promises, inflight, results,
                 pend, waitOn, got, calls, lastCaller, released, pageData>>
  /\ UNCHANGED <<hdrVars, filterVars, processVars, aggVars, uiVars>>

\* a filter that narrows the shared array in place
CallFilterInPlace(c, startYear, endYear, college) ==
  /\ pend[c] = "fulfilled"
  /\ pageData' = Array(FilterData(got[c], startYear, endYear, college))
  /\ cachedData' = pageData'
  /\ UNCHANGED <<dataPromise, promises, inflight, sourceUp, results,
                 pend, waitOn, got, calls, lastCaller, released>>
  /\ UNCHANGED <<hdrVars, filterVars, processVars, aggVars, uiVars>>

\* a page applies filterData to the records it was given
CallFilter(c, startYear, endYear, college) ==
  /\ pend[c] = "fulfilled"
  /\ pageData' = Array(FilterData(got[c], startYear, endYear, college))
  /\ UNCHANGED <<cachedData, dataPromise, promises, inflight, sourceUp, results,
                 pend, waitOn, got, calls, lastCaller, released>>
  /\ UNCHANGED <<hdrVars, filterVars, processVars, aggVars, uiVars>>

Next ==
  \/ \E c \in Callers : Call(c)
  \/ \E p \in inflight, data \in SourceData : PapaComplete(p, data)
  \/ \E p \in inflight : PapaError(p)
  \/ SourceChange
  \/ \E c \in Callers, college \in {S_all, S_Ohio} : CallFilter(c, 2024, 2025, college)

Spec == Init /\ [][Next]_vars

(***************************************************************************)
(* Claims about loadRecruitingData, checked under Spec.                    *)
(***************************************************************************)
\* some load has completed successfully
Completed == \E p \in DOMAIN promises : promises[p].state = "fulfilled"

\* the first load has not settled yet (or has not started)
FirstLoadOpen == promises = <<>> \/ promises[1].state = "pending"

\* C1: however many calls are issued before the first load settles, the
\* source is read at most once, and every caller waiting at the moment the
\* load settles receives the outcome of that one load.
C1_SingleFlight ==
  [][ FirstLoadOpen =>
        /\ Len(promises') <= 1
        /\ \A c \in Callers :
             (pend[c] = "waiting" /\ promises' # <<>> /\ promises'[1].state # "pending")
               => /\ pend'[c] = promises'[1].state
                  /\ got'[c] = promises'[1].value ]_vars

\* C1 witness: both callers asked while the load was in flight and were
\* resumed together by its `complete` callback
C1_Witness ==
  /\ released = Callers
  /\ Len(promises) = 1
  /\ promises[1].state = "fulfilled"
  /\ \A c \in Callers : pend[c] = "fulfilled" /\ got[c] = promises[1].value

\* C2: once a load has completed successfully, every later call reads
\* nothing and returns the cached records of that load, empty or not.
C2_CachedAfterSuccess ==
  [][ (Completed /\ calls' = calls + 1) =>
        /\ promises' = promises
        /\ inflight' = inflight
        /\ cachedData' = cachedData
        /\ pend'[lastCaller'] = "fulfilled"
        /\ got'[lastCaller'] = ProcessData(results) ]_vars

\* C2 witness: SizeGraphsMap called after the load had completed with no
\* admitted record (it was not among the callers the callback resumed)
C2_Witness ==
  /\ Completed
  /\ results # <<>>
  /\ released = {"ConnectionsMap"}
  /\ pend["SizeGraphsMap"] = "fulfilled"
  /\ got["SizeGraphsMap"] = <<>>
  /\ cachedData = Array(<<>>)

\* C3: once cachedData holds an array, no step changes it.
C3_CacheWrittenOnce ==
  [][ ~cachedData.isNull => cachedData' = cachedData ]_vars

\* C3 witness: the cache is filled, further calls and a filter call followed
C3_Witness ==
  /\ ~cachedData.isNull
  /\ cachedData.arr # <<>>
  /\ calls >= 3
  /\ ~pageData.isNull
  /\ pageData.arr # cachedData.arr

\* the admission rule as the specification words it
Kept(row) ==
  /\ TruthyStr(row.classYear)
  /\ row.committedTo \notin {<<>>, Undefined}
  /\ row.school \notin {<<>>, Undefined}
  /\ Coerce(row).latitude # Null
  /\ Coerce(row).longitude # Null
  /\ Coerce(row).classYear > 0

\* C5: every record a caller observes has coordinates, a school, a college
\* and a positive class year.
C5_ObservedRecordsValid ==
  \A c \in Callers : \A i \in DOMAIN got[c] :
    /\ got[c][i].latitude # Null
    /\ got[c][i].longitude # Null
    /\ got[c][i].school \notin {<<>>, Undefined}
    /\ got[c][i].committedTo \notin {<<>>, Undefined}
    /\ got[c][i].classYear > 0

\* C5 witness: a caller received records from a source that also held a
\* row without school
C5_Witness ==
  \E c \in Callers :
    /\ pend[c] = "fulfilled"
    /\ got[c] # <<>>
    /\ \E i \in DOMAIN results : results[i].school = Undefined

\* the integer a cell stands for, 0 when it does not parse
IntCell(cell) == IF ParseInt(cell).nan THEN 0 ELSE ParseInt(cell).val

\* both coordinates of the row are numbers
CoordsParse(row) ==
  /\ ~ParseFloat(row.latitude).nan
  /\ ~ParseFloat(row.longitude).nan

\* C7: a cell that is no number never fails the load: the load resolves,
\* the admitted rows carry year, ranking and stars with 0 for such a cell,
\* a row whose latitude or longitude is no number is dropped, and the other
\* admissible rows are all there.
C7_BadCellsTolerated ==
  ~cachedData.isNull =>
    LET kept == SelectSeq(results, Kept)
        out  == cachedData.arr
    IN /\ dataPromise # 0
       /\ promises[dataPromise] = [state |-> "fulfilled", value |-> out]
       /\ \A c \in Callers : pend[c] # "rejected"
       /\ Len(out) = Len(kept)
       /\ \A i \in DOMAIN kept :
            /\ CoordsParse(kept[i])
            /\ out[i].year = IntCell(kept[i].year)
            /\ out[i].ranking = IntCell(kept[i].ranking)
            /\ out[i].stars = IntCell(kept[i].stars)
            /\ out[i].name = kept[i].name

\* C7 witness: a row with a non-numeric latitude was dropped, a row with
\* non-numeric ranking and stars was admitted with zeros
C7_Witness ==
  /\ Len(promises) = 1
  /\ promises[1].state = "fulfilled"
  /\ Len(results) = 2
  /\ ParseFloat(results[1].latitude).nan
  /\ ParseInt(results[2].stars).nan
  /\ ParseInt(results[2].ranking).nan
  /\ Len(promises[1].value) = 1
  /\ promises[1].value[1].stars = 0
  /\ promises[1].value[1].ranking = 0

\* C8: when the error callback of a request fires, every caller sharing it
\* fails, the cache stays empty and no new read is started.
C8_ErrorRejectsAll ==
  [][ \A p \in inflight :
        (p \notin inflight' /\ ~sourceUp) =>
          /\ promises'[p].state = "rejected"
          /\ \A c \in Callers :
               (pend[c] = "waiting" /\ waitOn[c] = p) => pend'[c] = "rejected"
          /\ cachedData.isNull /\ cachedData'.isNull
          /\ Len(promises') = Len(promises)
          /\ inflight' = inflight \ {p} ]_vars

\* C8 witness: both callers shared the load that failed
C8_Witness ==
  /\ released = Callers
  /\ \A c \in Callers : pend[c] = "rejected"
  /\ cachedData.isNull
  /\ inflight = {}
  /\ Len(promises) = 1

\* C9: a call made after the load has failed starts a new read of the source.
C9_RetryStartsNewRead ==
  [][ ( /\ calls' = calls + 1
        /\ promises # <<>>
        /\ \A p \in DOMAIN promises : promises[p].state = "rejected" )
        => Len(promises') = Len(promises) + 1 ]_vars

(***************************************************************************)
(* transformHeader on the column names of a source: SpecHeader.            *)
(***************************************************************************)
\* the columns of recruiting_data.csv (README, "Data Structure")
CsvHeaders ==
  { <<"y","e","a","r">>, <<"n","a","m","e">>, <<"s","c","h","o","o","l">>,
    H_committedTo, <<"c","i","t","y">>, H_stateProvince,
    <<"c","o","u","n","t","r","y">>, H_class_year,
    <<"l","a","t","i","t","u","d","e">>, <<"l","o","n","g","i","t","u","d","e">>,
    <<"r","a","n","k","i","n","g">>, <<"s","t","a","r","s">> }

\* other spellings of the three mapped columns
VariantHeaders ==
  { <<"C","l","a","s","s","_","Y","e","a","r">>,
    <<"C","L","A","S","S","_","Y","E","A","R">>,
    <<"c","l","a","s","s"," ","y","e","a","r">>,
    <<" ","c","l","a","s","s","_","y","e","a","r">>,
    H_classYear,
    H_stateprovince,
    <<"S","t","a","t","e"," ","P","r","o","v","i","n","c","e">>,
    H_committedto,
    <<"C","o","m","m","i","t","t","e","d","T","o">>,
    <<"c","o","m","m","i","t","t","e","d"," ","t","o">>,
    <<"L","a","t","i","t","u","d","e">>,
    <<"P","l","a","y","e","r","\t","N","a","m","e">> }

\* the characters of the generated column names
HdrChars == {"a", "Y", " ", "_"}

Headers == CsvHeaders \cup VariantHeaders \cup SeqsUpTo(HdrChars, MaxHeaderLen)

\* nothing is being loaded
LoadIdle == InitLoad /\ sourceUp

InitHeader ==
  /\ LoadIdle
  /\ FilterIdle
  /\ ProcessIdle
  /\ AggIdle
  /\ UiIdle
  /\ hdr \in Headers
  /\ hdrOut = NoHeader

\* Papa.parse hands hdr to the transformHeader of utils/dataLoader.js
RunTransformUtils ==
  /\ hdrOut.utils = NotRun
  /\ hdrOut' = [hdrOut EXCEPT !.utils = TransformHeaderUtils(hdr)]
  /\ UNCHANGED <<hdr, loadVars, filterVars, processVars, aggVars, uiVars>>

\* Papa.parse hands hdr to the transformHeader of the second copy
RunTransformPart ==
  /\ hdrOut.part = NotRun
  /\ hdrOut' = [hdrOut EXCEPT !.part = TransformHeaderPart(hdr)]
  /\ UNCHANGED <<hdr, loadVars, filterVars, processVars, aggVars, uiVars>>

NextHeader == RunTransformUtils \/ RunTransformPart

SpecHeader == InitHeader /\ [][NextHeader]_vars

\* the mapping the specification gives: three exact names, else cleaned
ExactOverride(header) ==
  IF header = H_class_year THEN H_classYear
  ELSE IF header \in {H_stateProvince, H_committedTo} THEN header
  ELSE StripWhiteSpace(ToLowerCase(header))

\* C6: both copies of transformHeader map exactly class_year, stateProvince
\* and committedTo to classYear, stateProvince and committedTo, and every
\* other header to its lower-cased form without white space.
C6_ExactOverrides ==
  /\ hdrOut.utils # NotRun => hdrOut.utils = ExactOverride(hdr)
  /\ hdrOut.part # NotRun => hdrOut.part = ExactOverride(hdr)

(***************************************************************************)
(* filterData as a function of its arguments: SpecFilter.                  *)
(***************************************************************************)
S_ohio_state == <<"o","h","i","o"," ","s","t","a","t","e">>
S_OHIO_U == <<"O","H","I","O"," ","U">>

\* rows whose coerced form the filter is given: records of the map stage of
\* `complete`, so class years are integers and coordinates are non-zero
\* decimals or null
FilterRawRows ==
  { BaseRow, OtherRow,
    [BaseRow EXCEPT !.classYear = S_2023, !.school = <<"C">>],
    [BaseRow EXCEPT !.classYear = <<"2","0","2","6">>],
    [BaseRow EXCEPT !.country = S_CAN],
    [BaseRow EXCEPT !.country = <<"u","s","a">>],
    [BaseRow EXCEPT !.committedTo = S_Alabama, !.country = S_USA],
    [BaseRow EXCEPT !.committedTo = S_OHIO_U, !.classYear = S_2025],
    [BaseRow EXCEPT !.latitude = <<"n","o","r","t","h">>],
    [BaseRow EXCEPT !.longitude = <<"0">>] }

FilterRecords == { Coerce(r) : r \in FilterRawRows }

SelectableYears == {2023, 2024, 2025}
Colleges == { S_all, S_Ohio, S_ohio_state, S_Alabama, <<"A","L","L">>, <<>> }

FilterArgs ==
  [ data : SeqsUpTo(FilterRecords, MaxFilterRows),
    startYear : SelectableYears, endYear : SelectableYears,
    college : Colleges ]

InitFilter ==
  /\ LoadIdle
  /\ HdrIdle
  /\ ProcessIdle
  /\ AggIdle
  /\ UiIdle
  /\ fIn \in FilterArgs
  /\ fOut = NoArray
  /\ fAgain = NoArray

\* a page calls filterData(data, startYear, endYear, college)
ApplyFilter ==
  /\ fOut.isNull
  /\ fOut' = Array(FilterData(fIn.data, fIn.startYear, fIn.endYear, fIn.college))
  /\ UNCHANGED <<fIn, fAgain, loadVars, hdrVars, processVars, aggVars, uiVars>>

\* the page calls filterData again, on the result and with the same arguments
ApplyFilterAgain ==
  /\ ~fOut.isNull
  /\ fAgain.isNull
  /\ fAgain' = Array(FilterData(fOut.arr, fIn.startYear, fIn.endYear, fIn.college))
  /\ UNCHANGED <<fIn, fOut, loadVars, hdrVars, processVars, aggVars, uiVars>>

NextFilter ==
  \/ ApplyFilter
  \/ ApplyFilterAgain

SpecFilter == InitFilter /\ [][NextFilter]_vars

\* the four conditions of the specification
Passes(r, startYear, endYear, college) ==
  /\ startYear <= r.classYear /\ r.classYear <= endYear
  /\ r.latitude # Null /\ r.longitude # Null
  /\ r.country = S_USA
  /\ college # S_all =>
       \E i \in 0..Len(r.committedTo) : \E n \in 0..Len(r.committedTo) - i :
         ToLowerCase(SubSeq(r.committedTo, i + 1, i + n)) = ToLowerCase(college)

\* C10: filterData returns, in input order, exactly the records that pass
\* the four conditions; "Ohio" selects a record committed to "Ohio State";
\* a record of country "CAN" is never returned.
C10_FilterExact ==
  ~fOut.isNull =>
    /\ fOut.arr = SelectSeq(fIn.data,
         LAMBDA r : Passes(r, fIn.startYear, fIn.endYear, fIn.college))
    /\ \A i \in DOMAIN fOut.arr : fOut.arr[i].country # S_CAN
    /\ fIn.college = S_Ohio =>
         \A i \in DOMAIN fIn.data :
           ( /\ fIn.data[i].committedTo = S_OhioState
             /\ fIn.data[i].country = S_USA
             /\ fIn.data[i].latitude # Null /\ fIn.data[i].longitude # Null
             /\ fIn.data[i].classYear \in fIn.startYear..fIn.endYear )
           => \E j \in DOMAIN fOut.arr : fOut.arr[j] = fIn.data[i]

\* C10 witness: "Ohio" kept the Ohio State record and left out the
\* Canadian record beside it
C10_Witness ==
  /\ ~fOut.isNull
  /\ fIn.college = S_Ohio
  /\ Len(fIn.data) = 2
  /\ fIn.data[1].country = S_CAN
  /\ fIn.data[2].committedTo = S_OhioState
  /\ fOut.arr = <<fIn.data[2]>>

\* C18: filterData is idempotent: filtering the result of filterData again
\* with the same startYear, endYear and college returns that result.
C18_FilterIdempotent ==
  ~fAgain.isNull => fAgain.arr = fOut.arr

\* C18 witness: a college filter that kept one record of two was applied to
\* its own result and kept that record
C18_Witness ==
  /\ ~fAgain.isNull
  /\ fIn.college # S_all
  /\ Len(fIn.data) = 2
  /\ Len(fOut.arr) = 1
  /\ fAgain.arr = fOut.arr

(***************************************************************************)
(* The row processing of `complete` as a function of results.data:         *)
(* SpecProcess.                                                            *)
(***************************************************************************)
\* every combination of the cells the admission rule reads
CellRows ==
  { [BaseRow EXCEPT !.classYear = cy, !.committedTo = ct, !.school = sc,
                    !.latitude = la, !.longitude = lo] :
      cy \in { S_2024, <<>>, <<"0">>, <<"n","/","a">>, <<"-","3">>,
               <<"2","0","2","5","x">>, <<" ","7">>, Undefined },
      ct \in { S_OhioState, <<>>, Undefined },
      sc \in { <<"A">>, <<>>, Undefined },
      la \in { <<"4","0",".","1">>, <<"n","o","r","t","h">>, <<"0">>, <<>>,
               <<"-",".","5">> },
      lo \in { <<"-","8","3",".","5","0">>, <<"0",".","0">>, <<"-","0">>,
               Undefined } }

\* one line of any combination of cells, or up to MaxRows lines of RawRows
ProcessInputs == { <<r>> : r \in CellRows } \cup SeqsUpTo(RawRows, MaxRows)

InitProcess ==
  /\ LoadIdle
  /\ HdrIdle
  /\ FilterIdle
  /\ AggIdle
  /\ UiIdle
  /\ pIn \in ProcessInputs
  /\ pOut = NoArray

\* `complete` computes processedData from results.data
RunProcess ==
  /\ pOut.isNull
  /\ pOut' = Array(ProcessData(pIn))
  /\ UNCHANGED <<pIn, loadVars, hdrVars, filterVars, aggVars, uiVars>>

NextProcess == RunProcess

SpecProcess == InitProcess /\ [][NextProcess]_vars

\* C4: the loaded records are exactly the coerced rows that satisfy the
\* admission rule (raw classYear truthy, committedTo and school non-empty,
\* coerced latitude and longitude non-null, coerced classYear > 0), in
\* source order; every other row is dropped.
C4_AdmissionRule ==
  ~pOut.isNull => pOut.arr = CoerceAll(SelectSeq(pIn, Kept))

\* C4 witness: of two rows, the one whose class year is not positive was
\* dropped and the well-formed one after it was kept
C4_Witness ==
  /\ ~pOut.isNull
  /\ Len(pIn) = 2
  /\ pIn[1].classYear = <<"-","3">>
  /\ pIn[2] = OtherRow
  /\ pOut.arr = <<Coerce(OtherRow)>>

(***************************************************************************)
(* The functions over the loaded records, each applied once to a loaded    *)
(* record sequence.                                                        *)
(***************************************************************************)
MaxAggRows == 2

S_2029 == <<"2","0","2","9">>
S_2030 == <<"2","0","3","0">>
S_2031 == <<"2","0","3","1">>
S_Zzz == <<"Z","z","z">>

\* the lines of the source behind the records: lines that agree in school and
\* college or in city and state and differ in the rest, a city of the same
\* name in another state, names holding '|', a lower-case college, class
\* years around 2030, and a line without college
AggRawRows ==
  { BaseRow, OtherRow,
    [BaseRow EXCEPT !.latitude = <<"4","1",".","2">>],
    [BaseRow EXCEPT !.stateProvince = <<"T","X">>, !.longitude = <<"-","9","7">>],
    [BaseRow EXCEPT !.school = <<"A","|","B">>, !.committedTo = <<"C">>],
    [BaseRow EXCEPT !.committedTo = <<"B","|","C">>],
    [BaseRow EXCEPT !.committedTo = S_ohio_state, !.classYear = S_2029],
    [BaseRow EXCEPT !.classYear = S_2030],
    [BaseRow EXCEPT !.classYear = S_2031, !.school = <<"B">>],
    [BaseRow EXCEPT !.committedTo = Undefined] }

\* the record sequences loadRecruitingData can resolve with
LoadedData == { ProcessData(raw) : raw \in SeqsUpTo(AggRawRows, MaxAggRows) }

\* row.committedTo.toLowerCase() of a row without committedTo is a TypeError
FilterDataThrows(data, startYear, endYear, college) ==
  /\ college # S_all
  /\ \E i \in DOMAIN data :
       /\ YearAndLocation(data[i], startYear, endYear)
       /\ Field(data[i], "committedTo") = Undefined

\* what a call leaves: the function, its arguments after the data, and either
\* the value it returned or the fact that it threw
Returned(fn, args, val) == [fn |-> fn, args |-> args, threw |-> FALSE, val |-> val]
Threw(fn, args) == [fn |-> fn, args |-> args, threw |-> TRUE, val |-> <<>>]

InitAgg ==
  /\ LoadIdle
  /\ HdrIdle
  /\ FilterIdle
  /\ ProcessIdle
  /\ UiIdle
  /\ aIn \in LoadedData
  /\ aOut = NoResult

\* a page calls getUniqueColleges(aIn) of utils/dataLoader.js
RunGetUniqueCollegesUtils ==
  /\ aOut = NoResult
  /\ aOut' = Returned("getUniqueColleges utils", <<>>, GetUniqueCollegesUtils(aIn))
  /\ UNCHANGED <<aIn, loadVars, hdrVars, filterVars, processVars, uiVars>>

\* a page calls getUniqueColleges(aIn) of the second copy
RunGetUniqueCollegesPart ==
  /\ aOut = NoResult
  /\ aOut' = Returned("getUniqueColleges part", <<>>, GetUniqueCollegesPart(aIn))
  /\ UNCHANGED <<aIn, loadVars, hdrVars, filterVars, processVars, uiVars>>

\* a page calls getYearRange(aIn)
RunGetYearRange ==
  /\ aOut = NoResult
  /\ aOut' = Returned("getYearRange", <<>>, GetYearRange(Array(aIn)))
  /\ UNCHANGED <<aIn, loadVars, hdrVars, filterVars, processVars, uiVars>>

\* a page calls getYearRange() before any data is there
RunGetYearRangeMissing ==
  /\ aOut = NoResult
  /\ aOut' = Returned("getYearRange missing", <<>>, GetYearRange(NoArray))
  /\ UNCHANGED <<aIn, loadVars, hdrVars, filterVars, processVars, uiVars>>

\* a page calls aggregatePathways(aIn)
RunAggregatePathways ==
  /\ aOut = NoResult
  /\ aOut' = Returned("aggregatePathways", <<>>, AggregatePathways(aIn))
  /\ UNCHANGED <<aIn, loadVars, hdrVars, filterVars, processVars, uiVars>>

\* a page calls aggregateCities(aIn) of utils/dataLoader.js
RunAggregateCitiesUtils ==
  /\ aOut = NoResult
  /\ aOut' = Returned("aggregateCities utils", <<>>, AggregateCitiesUtils(aIn))
  /\ UNCHANGED <<aIn, loadVars, hdrVars, filterVars, processVars, uiVars>>

\* a page calls aggregateCities(aIn) of the second copy
RunAggregateCitiesPart ==
  /\ aOut = NoResult
  /\ aOut' = Returned("aggregateCities part", <<>>, AggregateCitiesPart(aIn))
  /\ UNCHANGED <<aIn, loadVars, hdrVars, filterVars, processVars, uiVars>>

\* a page calls aggregateColleges(aIn) of utils/dataLoader.js
RunAggregateCollegesUtils ==
  /\ aOut = NoResult
  /\ aOut' = Returned("aggregateColleges utils", <<>>, AggregateCollegesUtils(aIn))
  /\ UNCHANGED <<aIn, loadVars, hdrVars, filterVars, processVars, uiVars>>

\* a page calls aggregateColleges(aIn) of the second copy
RunAggregateCollegesPart ==
  /\ aOut = NoResult
  /\ aOut' = Returned("aggregateColleges part", <<>>, AggregateCollegesPart(aIn))
  /\ UNCHANGED <<aIn, loadVars, hdrVars, filterVars, processVars, uiVars>>

\* filterData(aIn, startYear, endYear, college), which returns or throws
RunFilterData(startYear, endYear, college) ==
  /\ aOut = NoResult
  /\ aOut' = IF FilterDataThrows(aIn, startYear, endYear, college)
               THEN Threw("filterData", <<startYear, endYear, college>>)
               ELSE Returned("filterData", <<startYear, endYear, college>>,
                             FilterData(aIn, startYear, endYear, college))
  /\ UNCHANGED <<aIn, loadVars, hdrVars, filterVars, processVars, uiVars>>

NextAgg ==
  \/ RunGetUniqueCollegesUtils
  \/ RunGetUniqueCollegesPart
  \/ RunGetYearRange
  \/ RunGetYearRangeMissing
  \/ RunAggregatePathways
  \/ RunAggregateCitiesUtils
  \/ RunAggregateCitiesPart
  \/ RunAggregateCollegesUtils
  \/ RunAggregateCollegesPart
  \/ \E years \in {<<2023, 2025>>, <<2025, 2023>>}, college \in {S_all, S_Ohio, S_Zzz} :
       RunFilterData(years[1], years[2], college)

SpecAgg == InitAgg /\ [][NextAgg]_vars

\* the values of property f over the records of data
ValuesOf(data, f) == {data[i][f] : i \in DOMAIN data}

\* C11: in every copy getUniqueColleges returns exactly the distinct
\* committedTo values of the loaded records, strictly ascending in code unit
\* order and without duplicates.
C11_UniqueSorted ==
  aOut.fn \in {"getUniqueColleges utils", "getUniqueColleges part"} =>
    /\ {aOut.val[i] : i \in DOMAIN aOut.val} = ValuesOf(aIn, "committedTo")
    /\ \A i, j \in DOMAIN aOut.val : i < j => StrLess(aOut.val[i], aOut.val[j])


\* the number of records of data whose properties f and g are x and y
CountPair(data, f, x, g, y) ==
  Cardinality({i \in DOMAIN data : data[i][f] = x /\ data[i][g] = y})

\* C12: in every copy aggregateCities has one entry for each distinct pair of
\* city and stateProvince in its input, so that two records are counted in
\* the same entry exactly when they agree in both; the entry's city and state
\* are that pair and its count is the number of records with the pair.
C12_CitiesByCityAndState ==
  aOut.fn \in {"aggregateCities utils", "aggregateCities part"} =>
    LET pairs == {<<aIn[i].city, aIn[i].stateProvince>> : i \in DOMAIN aIn}
    IN /\ Len(aOut.val) = Cardinality(pairs)
       /\ \A p \in pairs : \E j \in DOMAIN aOut.val :
            /\ aOut.val[j].city = p[1]
            /\ aOut.val[j].state = p[2]
            /\ aOut.val[j].count = CountPair(aIn, "city", p[1], "stateProvince", p[2])

\* C13: in every copy aggregateColleges has exactly one entry for each
\* distinct committedTo of its input; the entry's college is that value and
\* its count is the number of records committed to it.
C13_OneEntryPerCollege ==
  aOut.fn \in {"aggregateColleges utils", "aggregateColleges part"} =>
    LET committed == ValuesOf(aIn, "committedTo")
    IN /\ Len(aOut.val) = Cardinality(committed)
       /\ \A c \in committed : \E j \in DOMAIN aOut.val :
            /\ aOut.val[j].college = c
            /\ aOut.val[j].count = Cardinality({i \in DOMAIN aIn : aIn[i].committedTo = c})

\* C14: aggregatePathways has one entry for each distinct pair of school and
\* committedTo in its input, whatever characters the two strings hold ('|'
\* included), so that two records are counted in the same pathway exactly
\* when they agree in both; the entry's count is the number of records with
\* the pair.
C14_PathwaysBySchoolAndCollege ==
  aOut.fn = "aggregatePathways" =>
    LET pairs == {<<aIn[i].school, aIn[i].committedTo>> : i \in DOMAIN aIn}
    IN /\ Len(aOut.val) = Cardinality(pairs)
       /\ \A p \in pairs : \E j \in DOMAIN aOut.val :
            /\ aOut.val[j].school = p[1]
            /\ aOut.val[j].college = p[2]
            /\ aOut.val[j].count = CountPair(aIn, "school", p[1], "committedTo", p[2])


\* the sum of count over the entries of an aggregation
RECURSIVE SumCounts(_)
SumCounts(entries) ==
  IF entries = <<>> THEN 0
  ELSE entries[1].count + SumCounts(Tail(entries))

Aggregations ==
  { "aggregatePathways", "aggregateCities utils", "aggregateCities part",
    "aggregateColleges utils", "aggregateColleges part" }

\* C15: for aggregatePathways, aggregateCities and aggregateColleges, in both
\* copies, the counts of the output entries add up to the number of input
\* records.
C15_CountsSumToInput ==
  aOut.fn \in Aggregations => SumCounts(aOut.val) = Len(aIn)

\* C15 witness: two records of the same school and college were aggregated
\* into one pathway that counts both
C15_Witness ==
  /\ aOut.fn = "aggregatePathways"
  /\ Len(aIn) = 2
  /\ aIn[1].school = aIn[2].school /\ aIn[1].committedTo = aIn[2].committedTo
  /\ Len(aOut.val) = 1
  /\ aOut.val[1].count = 2


\* the positions at which a key occurs for the first time, in ascending order
FirstOccurrences(keys) ==
  SelectSeq([i \in DOMAIN keys |-> i],
            LAMBDA i : \A j \in 1..(i - 1) : keys[j] # keys[i])

\* entry has the city, state and coordinates of record row
RepresentedBy(entry, row) ==
  /\ entry.city = row.city
  /\ entry.state = row.stateProvince
  /\ entry.lat = row.latitude
  /\ entry.lon = row.longitude

\* C16: the entries of aggregatePathways and of aggregateCities (of
\* utils/dataLoader.js) stand in the order in which their keys, the pair of
\* school and committedTo and the pair of city and stateProvince, first occur
\* in the input, and each entry has the city, state, lat and lon of the first
\* record with its key, whatever later records of the key carry.
C16_FirstSeenOrder ==
  /\ aOut.fn = "aggregatePathways" =>
       LET first == FirstOccurrences([i \in DOMAIN aIn |->
                                        <<aIn[i].school, aIn[i].committedTo>>])
       IN /\ Len(aOut.val) = Len(first)
          /\ \A n \in DOMAIN first :
               /\ aOut.val[n].school = aIn[first[n]].school
               /\ aOut.val[n].college = aIn[first[n]].committedTo
               /\ RepresentedBy(aOut.val[n], aIn[first[n]])
  /\ aOut.fn = "aggregateCities utils" =>
       LET first == FirstOccurrences([i \in DOMAIN aIn |->
                                        <<aIn[i].city, aIn[i].stateProvince>>])
       IN /\ Len(aOut.val) = Len(first)
          /\ \A n \in DOMAIN first : RepresentedBy(aOut.val[n], aIn[first[n]])


\* C17: getYearRange returns {min: 2023, max: 2025} when its input is
\* missing, is empty or has no classYear strictly between 0 and 2030;
\* otherwise min and max are the smallest and the largest classYear strictly
\* between 0 and 2030, so that min <= max and a classYear of 2030 or more has
\* no influence.
C17_YearRange ==
  /\ aOut.fn = "getYearRange missing" => aOut.val = [min |-> 2023, max |-> 2025]
  /\ aOut.fn = "getYearRange" =>
       LET valid == {y \in ValuesOf(aIn, "classYear") : 0 < y /\ y < 2030}
       IN IF valid = {}
            THEN aOut.val = [min |-> 2023, max |-> 2025]
            ELSE /\ aOut.val.min \in valid
                 /\ aOut.val.max \in valid
                 /\ \A y \in valid : aOut.val.min <= y /\ y <= aOut.val.max
                 /\ aOut.val.min <= aOut.val.max

\* C17 witness: of the class years 2023 and 2031 only 2023 made the range
C17_Witness ==
  /\ aOut.fn = "getYearRange"
  /\ Len(aIn) = 2
  /\ aIn[1].classYear = 2023
  /\ aIn[2].classYear = 2031
  /\ aOut.val = [min |-> 2023, max |-> 2023]


\* no record of data is committed to a college whose name holds `college`
MatchesNothing(data, college) ==
  /\ college # S_all
  /\ \A i \in DOMAIN data :
       ~Includes(ToLowerCase(data[i].committedTo), ToLowerCase(college))

\* C19: on a loaded record sequence filterData and the three aggregations
\* never throw; filterData returns the empty sequence when startYear >
\* endYear and when the college matches no record, and each aggregation
\* returns the empty sequence for the empty input.
C19_NeverFails ==
  /\ aOut.fn \in Aggregations \cup {"filterData"} => ~aOut.threw
  /\ ( /\ aOut.fn = "filterData"
       /\ (aOut.args[1] > aOut.args[2] \/ MatchesNothing(aIn, aOut.args[3])) )
       => aOut.val = <<>>
  /\ (aOut.fn \in Aggregations /\ aIn = <<>>) => aOut.val = <<>>

\* C19 witness: filterData was called on two loaded records with startYear
\* 2025 and endYear 2023 and a college, and returned the empty sequence
C19_Witness ==
  /\ aOut.fn = "filterData"
  /\ Len(aIn) = 2
  /\ aOut.args = <<2025, 2023, S_Ohio>>
  /\ ~aOut.threw
  /\ aOut.val = <<>>


(***************************************************************************)
(* The calls of the pages on the records they loaded: SpecCalls starts     *)
(* when both pages have been handed the array that fills the cache.        *)
(***************************************************************************)
\* data.reverse()
RECURSIVE Reverse(_)
Reverse(arr) ==
  IF arr = <<>> THEN <<>> ELSE Append(Reverse(Tail(arr)), arr[1])

\* the sources a load has read, each with the records it was processed into
LoadedSources ==
  { [raw |-> raw, data |-> ProcessData(raw)] : raw \in SeqsUpTo(AggRawRows, MaxAggRows) }

\* the state after both pages called loadRecruitingData() and `complete`
\* was handed results.data = raw
InitCalls ==
  /\ HdrIdle
  /\ FilterIdle
  /\ ProcessIdle
  /\ AggIdle
  /\ UiIdle
  /\ \E s \in LoadedSources :
       /\ results = s.raw
       /\ cachedData = Array(s.data)
       /\ promises = <<[state |-> "fulfilled", value |-> s.data]>>
       /\ got = [c \in Callers |-> s.data]
  /\ dataPromise = 1
  /\ inflight = {}
  /\ sourceUp = TRUE
  /\ pend = [c \in Callers |-> "fulfilled"]
  /\ waitOn = [c \in Callers |-> 0]
  /\ calls = 2
  /\ lastCaller = "SizeGraphsMap"
  /\ released = Callers
  /\ pageData = NoArray

\* a getUniqueColleges that reverses the array it is given, in place
CallGetUniqueCollegesInPlace(c) ==
  /\ pend[c] = "fulfilled"
  /\ aOut' = Returned("getUniqueColleges", <<>>, GetUniqueCollegesUtils(Reverse(got[c])))
  /\ cachedData' = Array(Reverse(cachedData.arr))
  /\ got' = [d \in Callers |-> IF pend[d] = "fulfilled" THEN Reverse(got[d]) ELSE got[d]]
  /\ UNCHANGED <<dataPromise, promises, inflight, sourceUp, results,
                 pend, waitOn, calls, lastCaller, released, pageData>>
  /\ UNCHANGED <<aIn, hdrVars, filterVars, processVars, uiVars>>

\* page c calls getUniqueColleges(recruitingData)
CallGetUniqueColleges(c) ==
  /\ pend[c] = "fulfilled"
  /\ aOut' = Returned("getUniqueColleges", <<>>, GetUniqueCollegesUtils(got[c]))
  /\ UNCHANGED <<aIn, loadVars, hdrVars, filterVars, processVars, uiVars>>

\* page c calls getYearRange(recruitingData)
CallGetYearRange(c) ==
  /\ pend[c] = "fulfilled"
  /\ aOut' = Returned("getYearRange", <<>>, GetYearRange(Array(got[c])))
  /\ UNCHANGED <<aIn, loadVars, hdrVars, filterVars, processVars, uiVars>>

\* page c calls filterData(data, startYear, endYear, college) and keeps the
\* result as `filtered`
CallFilterData(c, startYear, endYear, college) ==
  /\ pend[c] = "fulfilled"
  /\ pageData' = Array(FilterData(got[c], startYear, endYear, college))
  /\ aOut' = Returned("filterData", <<startYear, endYear, college>>, pageData'.arr)
  /\ UNCHANGED <<cachedData, dataPromise, promises, inflight, sourceUp, results,
                 pend, waitOn, got, calls, lastCaller, released>>
  /\ UNCHANGED <<aIn, hdrVars, filterVars, processVars, uiVars>>

\* ConnectionsMap calls aggregatePathways(filtered)
CallAggregatePathways ==
  /\ pend["ConnectionsMap"] = "fulfilled"
  /\ ~pageData.isNull
  /\ aOut' = Returned("aggregatePathways", <<pageData.arr>>, AggregatePathways(pageData.arr))
  /\ UNCHANGED <<aIn, loadVars, hdrVars, filterVars, processVars, uiVars>>

\* SizeGraphsMap calls aggregateCities(filtered)
CallAggregateCities ==
  /\ pend["SizeGraphsMap"] = "fulfilled"
  /\ ~pageData.isNull
  /\ aOut' = Returned("aggregateCities", <<pageData.arr>>, AggregateCitiesUtils(pageData.arr))
  /\ UNCHANGED <<aIn, loadVars, hdrVars, filterVars, processVars, uiVars>>

\* SizeGraphsMap calls aggregateColleges(filtered)
CallAggregateColleges ==
  /\ pend["SizeGraphsMap"] = "fulfilled"
  /\ ~pageData.isNull
  /\ aOut' = Returned("aggregateColleges", <<pageData.arr>>, AggregateCollegesUtils(pageData.arr))
  /\ UNCHANGED <<aIn, loadVars, hdrVars, filterVars, processVars, uiVars>>

NextCalls ==
  \/ \E c \in Callers : CallGetUniqueColleges(c)
  \/ \E c \in Callers : CallGetYearRange(c)
  \/ \E c \in Callers, college \in {S_all, S_Ohio} : CallFilterData(c, 2023, 2025, college)
  \/ CallAggregatePathways
  \/ CallAggregateCities
  \/ CallAggregateColleges

SpecCalls == InitCalls /\ [][NextCalls]_vars

MaxPageRows == 3
DisplayLimit == 1

S_2021 == <<"2","0","2","1">>

\* the lines of the source behind the records of a page: two cities of one
\* name in two states, two colleges, class years from 2021 to 2025
PageRawRows ==
  { BaseRow,
    [BaseRow EXCEPT !.committedTo = S_Alabama, !.stateProvince = <<"T","X">>,
                    !.classYear = S_2025],
    [BaseRow EXCEPT !.committedTo = S_Alabama, !.city = <<"Y">>,
                    !.classYear = S_2023],
    [BaseRow EXCEPT !.classYear = S_2021] }

\* what loadRecruitingData() can resolve with
PageData == { ProcessData(raw) : raw \in SeqsUpTo(PageRawRows, MaxPageRows) }

\* the years new Date().getFullYear() may give
CurrentYears == {2025, 2027}

\* the years of the two dropdowns a user picks from
PickedYears == {2023, 2025}

Max2(a, b) == IF a >= b THEN a ELSE b
Min2(a, b) == IF a <= b THEN a ELSE b

\* arr.slice(0, n)
Slice(arr, n) == SubSeq(arr, 1, Min2(n, Len(arr)))

\* college = 'all' as a default parameter: undefined selects the default
DefaultCollege(college) == IF college = Undefined THEN S_all ELSE college

\* getUniqueColleges, aggregateCities, aggregateColleges of the copy `from`
GetUniqueCollegesOf(from, data) ==
  IF from = "utils" THEN GetUniqueCollegesUtils(data) ELSE GetUniqueCollegesPart(data)
AggregateCitiesOf(from, data) ==
  IF from = "utils" THEN AggregateCitiesUtils(data) ELSE AggregateCitiesPart(data)
AggregateCollegesOf(from, data) ==
  IF from = "utils" THEN AggregateCollegesUtils(data) ELSE AggregateCollegesPart(data)

\* processedData of SizeGraphsMap (the random placeholder coordinates of the
\* "All Colleges" view are left out)
SizeProcessedData(from, data, years, college, mode) ==
  IF data.isNull THEN <<>>
  ELSE LET filtered == FilterData(data.arr, years[1], years[2], DefaultCollege(college))
       IN CASE mode = "allCities" -> AggregateCitiesOf(from, filtered)
            [] mode = "citiesToCollege" ->
                 IF college = S_all THEN <<>> ELSE AggregateCitiesOf(from, filtered)
            [] mode = "allColleges" -> AggregateCollegesOf(from, filtered)
            [] OTHER -> <<>>

\* pathways.map(pathway => ({hs_name: ..., recruit_count: ...})) (the grid
\* coordinates given to the colleges are left out)
TransformPathways(pathways) ==
  [i \in 1..Len(pathways) |->
     [ hs_name       |-> pathways[i].school,
       hs_lat        |-> pathways[i].lat,
       hs_lon        |-> pathways[i].lon,
       hs_city       |-> pathways[i].city,
       hs_state      |-> pathways[i].state,
       college_name  |-> pathways[i].college,
       recruit_count |-> pathways[i].count ]]

\* processedData.pathways of ConnectionsMap; DisplayLimit stands for the 3000
\* of slice(0, 3000)
ConnectionsPathways(data, years, college) ==
  IF data.isNull THEN <<>>
  ELSE LET filtered == FilterData(data.arr, years[1], years[2], DefaultCollege(college))
       IN Slice(TransformPathways(AggregatePathways(filtered)), DisplayLimit)

\* what the mounted page derives from its state by useMemo
ProcessedData ==
  IF page = "SizeGraphsMap"
    THEN SizeProcessedData(lib, recruitingData, selectedYears, selectedCollege, viewMode)
    ELSE ConnectionsPathways(recruitingData, selectedYears, selectedCollege)

\* the first render of a page: useState initial values, loadData awaiting
InitPage ==
  /\ LoadIdle
  /\ HdrIdle
  /\ FilterIdle
  /\ ProcessIdle
  /\ AggIdle
  /\ GeoIdle
  /\ TimerIdle
  /\ CoordIdle
  /\ page \in Callers
  /\ lib \in {"utils", "part"}
  /\ currentYear \in CurrentYears
  /\ loadState = "pending"
  /\ recruitingData = NoArray
  /\ loading = TRUE
  /\ error = FALSE
  /\ selectedCollege = S_all
  /\ selectedYears = <<2023, 2025>>
  /\ viewMode = IF page = "SizeGraphsMap" THEN "allCities" ELSE "none"
  /\ colleges = <<>>
  /\ yearRange = [min |-> 2023, max |-> 2025]

\* the years offered by YearRangeDropdown: from currentYear down to
\* max(yearRange.min, currentYear - 10)
YearOptions == Max2(yearRange.min, currentYear - 10)..currentYear

\* the controls are rendered once loading is over and no error is shown
ControlsShown == ~loading /\ ~error

\* a loadData whose catch leaves the spinner on
LoadRejectsNoFinally ==
  /\ loadState = "pending"
  /\ loadState' = "rejected"
  /\ error' = TRUE
  /\ UNCHANGED <<page, lib, currentYear, recruitingData, loading, selectedCollege,
                 selectedYears, viewMode, colleges, yearRange>>
  /\ UNCHANGED <<loadVars, hdrVars, filterVars, processVars, aggVars, geoVars,
                 timerVars, coordVars>>

\* await loadRecruitingData() resolves with data: the rest of the try block
\* and the finally block of loadData
LoadResolves(data) ==
  /\ loadState = "pending"
  /\ loadState' = "fulfilled"
  /\ recruitingData' = Array(data)
  /\ colleges' = GetUniqueCollegesOf(lib, data)
  /\ yearRange' = GetYearRange(Array(data))
  /\ selectedYears' = <<Max2(yearRange'.min, currentYear - 1),
                        Min2(yearRange'.max, currentYear)>>
  /\ loading' = FALSE
  /\ UNCHANGED <<page, lib, currentYear, error, selectedCollege, viewMode>>
  /\ UNCHANGED <<loadVars, hdrVars, filterVars, processVars, aggVars, geoVars,
                 timerVars, coordVars>>

\* await loadRecruitingData() rejects: the catch and the finally block
LoadRejects ==
  /\ loadState = "pending"
  /\ loadState' = "rejected"
  /\ error' = TRUE
  /\ loading' = FALSE
  /\ UNCHANGED <<page, lib, currentYear, recruitingData, selectedCollege,
                 selectedYears, viewMode, colleges, yearRange>>
  /\ UNCHANGED <<loadVars, hdrVars, filterVars, processVars, aggVars, geoVars,
                 timerVars, coordVars>>

\* the radio group of SizeGraphsMap: setViewMode(e.target.value)
SetViewMode(mode) ==
  /\ page = "SizeGraphsMap"
  /\ ControlsShown
  /\ viewMode' = mode
  /\ UNCHANGED <<page, lib, currentYear, loadState, recruitingData, loading, error,
                 selectedCollege, selectedYears, colleges, yearRange>>
  /\ UNCHANGED <<loadVars, hdrVars, filterVars, processVars, aggVars, geoVars,
                 timerVars, coordVars>>

\* CollegeFilter, which SizeGraphsMap renders in "Cities to College" mode
\* only: onCollegeChange(e.target.value) of 'all' or of one of `colleges`
SetSelectedCollege(college) ==
  /\ ControlsShown
  /\ page = "SizeGraphsMap" => viewMode = "citiesToCollege"
  /\ college = S_all \/ \E i \in DOMAIN colleges : colleges[i] = college
  /\ selectedCollege' = college
  /\ UNCHANGED <<page, lib, currentYear, loadState, recruitingData, loading, error,
                 selectedYears, viewMode, colleges, yearRange>>
  /\ UNCHANGED <<loadVars, hdrVars, filterVars, processVars, aggVars, geoVars,
                 timerVars, coordVars>>

\* YearRangeDropdown.handleStartYearChange
SetStartYear(year) ==
  /\ ControlsShown
  /\ year \in YearOptions
  /\ selectedYears' = <<year, selectedYears[2]>>
  /\ UNCHANGED <<page, lib, currentYear, loadState, recruitingData, loading, error,
                 selectedCollege, viewMode, colleges, yearRange>>
  /\ UNCHANGED <<loadVars, hdrVars, filterVars, processVars, aggVars, geoVars,
                 timerVars, coordVars>>

\* YearRangeDropdown.handleEndYearChange
SetEndYear(year) ==
  /\ ControlsShown
  /\ year \in YearOptions
  /\ selectedYears' = <<selectedYears[1], year>>
  /\ UNCHANGED <<page, lib, currentYear, loadState, recruitingData, loading, error,
                 selectedCollege, viewMode, colleges, yearRange>>
  /\ UNCHANGED <<loadVars, hdrVars, filterVars, processVars, aggVars, geoVars,
                 timerVars, coordVars>>

NextPage ==
  \/ \E data \in PageData : LoadResolves(data)
  \/ LoadRejects
  \/ \E mode \in {"allCities", "citiesToCollege", "allColleges"} : SetViewMode(mode)
  \/ \E college \in {S_all, S_OhioState, S_Alabama, Undefined} : SetSelectedCollege(college)
  \/ \E year \in PickedYears : SetStartYear(year)
  \/ \E year \in PickedYears : SetEndYear(year)

SpecPage == InitPage /\ [][NextPage]_vars

\* the cities of the records that pass the year, location and country tests
\* of the selected years, each with its state and its number of records
CityTotals ==
  LET shown == SelectSeq(recruitingData.arr,
                 LAMBDA r : YearAndLocation(r, selectedYears[1], selectedYears[2]))
  IN { [city |-> shown[i].city, state |-> shown[i].stateProvince,
        count |-> CountPair(shown, "city", shown[i].city,
                            "stateProvince", shown[i].stateProvince)]
       : i \in DOMAIN shown }

\* C21: in the "All Cities" view of the Size Graphs page the cities shown are
\* all cities of the selected years, each with its recruit count over all
\* colleges, whatever college was selected before in "Cities to College"
\* mode.
C21_AllCitiesShowsAll ==
  (page = "SizeGraphsMap" /\ viewMode = "allCities" /\ ~recruitingData.isNull) =>
    { [city |-> ProcessedData[i].city, state |-> ProcessedData[i].state,
       count |-> ProcessedData[i].count] : i \in DOMAIN ProcessedData } = CityTotals


\* the pathways of the selected years and college before any limit
AllPathways ==
  TransformPathways(AggregatePathways(
    FilterData(recruitingData.arr, selectedYears[1], selectedYears[2],
               DefaultCollege(selectedCollege))))

\* C22: when the Connections Map shows fewer pathways than there are, the
\* ones shown are the top ones: no pathway left out has a higher recruit
\* count than a pathway that is shown.
C22_ShownAreTop ==
  (page = "ConnectionsMap" /\ ~recruitingData.isNull) =>
    \A i \in DOMAIN AllPathways :
      (\A k \in DOMAIN ProcessedData : ProcessedData[k] # AllPathways[i]) =>
        \A j \in DOMAIN ProcessedData :
          AllPathways[i].recruit_count <= ProcessedData[j].recruit_count


\* C24: when the load succeeds, for every year range of the data and every
\* current year, the selected years [start, end] that ConnectionsMap and
\* SizeGraphsMap set satisfy yearRange.min <= start <= end <= yearRange.max.
C24_InitialYearsInRange ==
  [][ (loadState = "pending" /\ loadState' = "fulfilled") =>
        /\ yearRange'.min <= selectedYears'[1]
        /\ selectedYears'[1] <= selectedYears'[2]
        /\ selectedYears'[2] <= yearRange'.max ]_vars

\* C25: in ConnectionsMap and SizeGraphsMap loading is true exactly while
\* the load has not settled and never becomes true again, error is set
\* exactly when the load failed, data is non-null exactly when the load
\* succeeded, and while data is null the derived pathways or aggregates are
\* empty.
C25_LoadLifecycle ==
  /\ [](loading <=> loadState = "pending")
  /\ [](error <=> loadState = "rejected")
  /\ [](~recruitingData.isNull <=> loadState = "fulfilled")
  /\ [](recruitingData.isNull => ProcessedData = <<>>)
  /\ [][~loading => ~loading']_vars

\* C25 witness: the load succeeded, the spinner is gone, no error is shown
\* and the page derives pathways or aggregates from the data
C25_Witness ==
  /\ loadState = "fulfilled"
  /\ ~loading
  /\ ~error
  /\ ~recruitingData.isNull
  /\ ProcessedData # <<>>


(***************************************************************************)
(* The geocode-based pages: ConnectionsMap (second version) and CirclesMap *)
(***************************************************************************)

MaxGeoRows == 2   \* rows of results.data given to a geocode-based page
TopLimit == 1     \* stands for the 10 of slice(0, 10)

S_AK == <<"A","K">>
S_HI == <<"H","I">>
S_2010 == <<"2","0","1","0">>

\* a line of the CSV as Papa.parse gives it with header: true and nothing
\* else: every cell a string
GeoBaseRow ==
  [ school        |-> <<"D">>,
    city          |-> <<"X">>,
    stateProvince |-> <<"O","H">>,
    country       |-> S_USA,
    latitude      |-> <<"4","0",".","1">>,
    longitude     |-> <<"-","8","3",".","5","0">>,
    committedTo   |-> S_Alabama,
    class_year    |-> S_2024 ]

\* the lines a geocode-based page is given: a continental recruit, an old
\* recruit from Alaska, a recruit from Canada, and two schools whose names
\* and states hold a comma
GeoRawRows ==
  { GeoBaseRow,
    [ GeoBaseRow EXCEPT !.school = <<"C">>, !.stateProvince = S_AK,
                        !.latitude = <<>>, !.longitude = <<>>,
                        !.class_year = S_2010 ],
    [ GeoBaseRow EXCEPT !.school = <<"E">>, !.stateProvince = <<"O","N">>,
                        !.country = S_CAN, !.latitude = <<>>, !.longitude = <<>>,
                        !.committedTo = S_OhioState ],
    [ GeoBaseRow EXCEPT !.school = <<"A",","," ","B">>, !.stateProvince = <<"C">> ],
    [ GeoBaseRow EXCEPT !.school = <<"A">>, !.stateProvince = <<"B",","," ","C">>,
                        !.committedTo = S_OhioState, !.class_year = S_2025 ] }

GeoData == SeqsUpTo(GeoRawRows, MaxGeoRows)

\* an entry of geocode_cache.json that holds coordinates
Coord == [kind |-> "object", latitude |-> "lat", longitude |-> "lon"]

\* an entry of geocode_cache.json that holds null
JsonNull == [kind |-> "null", latitude |-> "", longitude |-> ""]

\* what reading a property that an object lacks gives
NoEntry == [kind |-> "undefined", latitude |-> "", longitude |-> ""]

\* the parsed geocode_cache.json: the own properties in order
Lookup(entries) == [isNull |-> FALSE, entries |-> entries]

\* the lookups a page is given: both colleges located, one of them null,
\* one of them missing
GeoLookups ==
  { Lookup(<<[key |-> S_Alabama, value |-> Coord], [key |-> S_OhioState, value |-> Coord]>>),
    Lookup(<<[key |-> S_Alabama, value |-> Coord], [key |-> S_OhioState, value |-> JsonNull]>>),
    Lookup(<<[key |-> S_Alabama, value |-> Coord]>>) }

\* obj[key] of a parsed JSON object
HasEntry(obj, key) == \E i \in DOMAIN obj.entries : obj.entries[i].key = key
Get(obj, key) ==
  IF HasEntry(obj, key)
    THEN obj.entries[CHOOSE i \in DOMAIN obj.entries : obj.entries[i].key = key].value
    ELSE NoEntry

\* the truthiness of obj[key]
TruthyEntry(obj, key) == Get(obj, key).kind = "object"

\* parseInt(row.class_year) >= lo && parseInt(row.class_year) <= hi
YearWithin(row, lo, hi) ==
  LET y == ParseInt(Field(row, "class_year"))
  IN ~y.nan /\ y.val >= lo /\ y.val <= hi

\* showAllColleges || row.committedTo === selectedCollege
CollegeSelected(row, showAll, college) ==
  showAll \/ Field(row, "committedTo") = college

\* categorizeConnection(row)
CategorizeConnection(row) ==
  CASE Field(row, "stateProvince") = S_AK -> "alaska"
    [] Field(row, "stateProvince") = S_HI -> "hawaii"
    [] OTHER ->
         IF Field(row, "country") = S_USA THEN "continental"
         ELSE IF Field(row, "country") = S_CAN THEN "canada"
         ELSE "international"

\* the predicate of allData.filter in ConnectionsMap: && binds tighter than
\* ||, so the conditions on the college and the years belong to the first
\* alternative only
ConnectionsFilter(row, showAll, college, range) ==
  \/ /\ TruthyStr(Field(row, "committedTo"))
     /\ CollegeSelected(row, showAll, college)
     /\ YearWithin(row, range[1], range[2])
     /\ TruthyStr(Field(row, "latitude"))
     /\ TruthyStr(Field(row, "longitude"))
  \/ Field(row, "stateProvince") \in {S_AK, S_HI}
  \/ TruthyStr(Field(row, "country")) /\ Field(row, "country") # S_USA

\* collegeData of ConnectionsMap
ConnectionsCollegeData(data, showAll, college, range) ==
  SelectSeq(data, LAMBDA row : ConnectionsFilter(row, showAll, college, range))

\* pathwayCounts after collegeData.forEach: the continental rows
RECURSIVE PathwayCounts(_)
PathwayCounts(data) ==
  IF data = <<>> THEN EmptyMap
  ELSE LET row  == data[Len(data)]
           rest == PathwayCounts(SubSeq(data, 1, Len(data) - 1))
       IN IF CategorizeConnection(row) = "continental"
            THEN MapStep(rest,
                         PipeKey(Field(row, "school"), Field(row, "committedTo")),
                         [ school        |-> Field(row, "school"),
                           committedTo   |-> Field(row, "committedTo"),
                           city          |-> Field(row, "city"),
                           stateProvince |-> Field(row, "stateProvince"),
                           count         |-> 1,
                           latitude      |-> ParseFloat(Field(row, "latitude")),
                           longitude     |-> ParseFloat(Field(row, "longitude")),
                           region        |-> "continental" ])
            ELSE rest

\* the else branch of the forEach: create the edge point if it is new, push
\* the recruit, add one to totalCount
EdgeStep(m, key, region, row) ==
  LET m1 == IF \E i \in DOMAIN m.keys : m.keys[i] = key
              THEN m
              ELSE [keys   |-> Append(m.keys, key),
                    values |-> Append(m.values,
                                 [ region      |-> region,
                                   committedTo |-> Field(row, "committedTo"),
                                   recruits    |-> <<>>,
                                   totalCount  |-> 0 ])]
      i  == CHOOSE i \in DOMAIN m1.keys : m1.keys[i] = key
  IN [m1 EXCEPT !.values[i].recruits =
                   Append(@, [ school        |-> Field(row, "school"),
                               city          |-> Field(row, "city"),
                               stateProvince |-> Field(row, "stateProvince"),
                               country       |-> Field(row, "country") ]),
                !.values[i].totalCount = @ + 1]

\* edgePointData after collegeData.forEach: the rows that are not continental
RECURSIVE EdgePointData(_, _, _)
EdgePointData(data, showAll, college) ==
  IF data = <<>> THEN EmptyMap
  ELSE LET row    == data[Len(data)]
           rest   == EdgePointData(SubSeq(data, 1, Len(data) - 1), showAll, college)
           region == CategorizeConnection(row)
       IN IF region # "continental" /\ CollegeSelected(row, showAll, college)
            THEN EdgeStep(rest, <<region>> \o <<"|">> \o Template(Field(row, "committedTo")),
                          region, row)
            ELSE rest

\* the coordinates of a college, or the centre of the map
CollegeCoord(geo, college) ==
  IF TruthyEntry(geo, college) THEN Get(geo, college)
  ELSE [kind |-> "object", latitude |-> "39.8283", longitude |-> "-98.5795"]

\* processedData of ConnectionsMap
ConnectionsProcessedData(data, geo, showAll, college, range) ==
  IF data.isNull \/ geo.isNull THEN [pathways |-> <<>>, edgePoints |-> <<>>]
  ELSE LET collegeData == ConnectionsCollegeData(data.arr, showAll, college, range)
           counts      == PathwayCounts(collegeData).values
           edges       == EdgePointData(collegeData, showAll, college).values
       IN [ pathways |->
              [i \in 1..Len(counts) |->
                 [ hs_name       |-> counts[i].school,
                   hs_lat        |-> counts[i].latitude,
                   hs_lon        |-> counts[i].longitude,
                   hs_city       |-> counts[i].city,
                   hs_state      |-> counts[i].stateProvince,
                   college_name  |-> counts[i].committedTo,
                   college_lat   |-> CollegeCoord(geo, counts[i].committedTo).latitude,
                   college_lon   |-> CollegeCoord(geo, counts[i].committedTo).longitude,
                   recruit_count |-> counts[i].count,
                   region        |-> counts[i].region ]],
            edgePoints |->
              [i \in 1..Len(edges) |->
                 [ region       |-> edges[i].region,
                   college_name |-> edges[i].committedTo,
                   college_lat  |-> CollegeCoord(geo, edges[i].committedTo).latitude,
                   college_lon  |-> CollegeCoord(geo, edges[i].committedTo).longitude,
                   total_count  |-> edges[i].totalCount,
                   recruits     |-> edges[i].recruits ]] ]

\* `${pathway.hs_name}, ${pathway.hs_state}`
SchoolLabel(name, state) == Template(name) \o <<",", " ">> \o Template(state)

\* schoolCounts.set(key, (schoolCounts.get(key) || 0) + pathway.recruit_count)
RECURSIVE SchoolCounts(_)
SchoolCounts(pathways) ==
  IF pathways = <<>> THEN EmptyMap
  ELSE LET p    == pathways[Len(pathways)]
           m    == SchoolCounts(SubSeq(pathways, 1, Len(pathways) - 1))
           key  == SchoolLabel(p.hs_name, p.hs_state)
       IN IF \E i \in DOMAIN m.keys : m.keys[i] = key
            THEN LET i == CHOOSE i \in DOMAIN m.keys : m.keys[i] = key
                 IN [m EXCEPT !.values[i].count = @ + p.recruit_count]
            ELSE [keys   |-> Append(m.keys, key),
                  values |-> Append(m.values, [school |-> key, count |-> p.recruit_count])]

\* sort((a, b) => b.count - a.count): stable, greatest count first
InsertByCount(sorted, e) ==
  LET before == { i \in DOMAIN sorted : sorted[i].count >= e.count }
      k      == Cardinality(before)
  IN SubSeq(sorted, 1, k) \o <<e>> \o SubSeq(sorted, k + 1, Len(sorted))
RECURSIVE SortByCount(_)
SortByCount(arr) ==
  IF arr = <<>> THEN <<>>
  ELSE InsertByCount(SortByCount(SubSeq(arr, 1, Len(arr) - 1)), arr[Len(arr)])

\* topSchools of ConnectionsMap; TopLimit stands for the 10 of slice(0, 10)
TopSchoolsOf(pathways) ==
  IF Len(pathways) = 0 THEN <<>>
  ELSE Slice(SortByCount(SchoolCounts(pathways).values), TopLimit)

\* the filter of CirclesMap
CirclesFilter(row, showAll, college, range) ==
  /\ TruthyStr(Field(row, "committedTo"))
  /\ CollegeSelected(row, showAll, college)
  /\ YearWithin(row, range[1], range[2])
  /\ TruthyStr(Field(row, "latitude"))
  /\ TruthyStr(Field(row, "longitude"))
  /\ Field(row, "country") = S_USA

\* collegeData of CirclesMap: shouldShowAllColleges is showAllColleges ||
\* mapType === 'colleges'
CirclesCollegeData(data, showAll, college, range, type) ==
  SelectSeq(data, LAMBDA row :
              CirclesFilter(row, showAll \/ type = "colleges", college, range))

\* a loop body that looks no college up
CollegeCountsStepAnyCollege(m, geo, row) ==
  MapStep(m, Field(row, "committedTo"),
          [ college |-> Field(row, "committedTo"),
            lat     |-> CollegeCoord(geo, Field(row, "committedTo")).latitude,
            lon     |-> CollegeCoord(geo, Field(row, "committedTo")).longitude,
            count   |-> 1 ])

\* the body of the second forEach of CirclesMap: count the college if the
\* map has it, else set it if geocodeData[row.committedTo] is truthy
CollegeCountsStep(m, geo, row) ==
  IF \/ \E i \in DOMAIN m.keys : m.keys[i] = Field(row, "committedTo")
     \/ TruthyEntry(geo, Field(row, "committedTo"))
    THEN MapStep(m, Field(row, "committedTo"),
                 [ college |-> Field(row, "committedTo"),
                   lat     |-> Get(geo, Field(row, "committedTo")).latitude,
                   lon     |-> Get(geo, Field(row, "committedTo")).longitude,
                   count   |-> 1 ])
    ELSE m

\* collegeCounts after collegeData.forEach
RECURSIVE CollegeCounts(_, _)
CollegeCounts(data, geo) ==
  IF data = <<>> THEN EmptyMap
  ELSE CollegeCountsStep(CollegeCounts(SubSeq(data, 1, Len(data) - 1), geo),
                         geo, data[Len(data)])

\* cityCounts after collegeData.forEach
RECURSIVE CityCounts(_)
CityCounts(data) ==
  IF data = <<>> THEN EmptyMap
  ELSE LET row == data[Len(data)]
       IN MapStep(CityCounts(SubSeq(data, 1, Len(data) - 1)),
                  PipeKey(Field(row, "city"), Field(row, "stateProvince")),
                  [ city  |-> Field(row, "city"),
                    state |-> Field(row, "stateProvince"),
                    lat   |-> ParseFloat(Field(row, "latitude")),
                    lon   |-> ParseFloat(Field(row, "longitude")),
                    count |-> 1 ])

\* processedData of CirclesMap
CirclesProcessedData(data, geo, showAll, college, range, type) ==
  IF data.isNull \/ geo.isNull THEN [cities |-> <<>>, colleges |-> <<>>]
  ELSE LET collegeData == CirclesCollegeData(data.arr, showAll, college, range, type)
       IN [ cities   |-> CityCounts(collegeData).values,
            colleges |-> CollegeCounts(collegeData, geo).values ]

\* availableColleges of both pages, as a set
AvailableColleges(data, geo) ==
  IF data.isNull \/ geo.isNull THEN {}
  ELSE { Field(data.arr[i], "committedTo") : i \in
           { j \in DOMAIN data.arr :
               /\ TruthyStr(Field(data.arr[j], "committedTo"))
               /\ TruthyEntry(geo, Field(data.arr[j], "committedTo"))
               /\ ~ParseInt(Field(data.arr[j], "class_year")).nan
               /\ ParseInt(Field(data.arr[j], "class_year")).val >= 2020 } }

\* dataYearRange of both pages
DataYearRange(data) ==
  IF data.isNull THEN [min |-> 2020, max |-> 2025]
  ELSE LET parsed == [i \in DOMAIN data.arr |-> ParseInt(Field(data.arr[i], "class_year"))]
           years  == { parsed[i].val : i \in { j \in DOMAIN parsed :
                         ~parsed[j].nan /\ parsed[j].val > 0 /\ parsed[j].val < 2030 } }
       IN IF years = {} THEN [min |-> 2020, max |-> 2025]
          ELSE [min |-> CHOOSE y \in years : \A z \in years : y <= z,
                max |-> CHOOSE y \in years : \A z \in years : y >= z]

GeoPages == {"GeoConnectionsMap", "CirclesMap"}

\* the positions the slider thumbs are moved to
SliderYears == {2010, 2020, 2024, 2025}

\* what the mounted geocode-based page derives from its state by useMemo
GeoProcessedData ==
  IF page = "CirclesMap"
    THEN CirclesProcessedData(allData, geocodeData, showAllColleges, selectedCollege,
                              yearRange, mapType)
    ELSE ConnectionsProcessedData(allData, geocodeData, showAllColleges,
                                  selectedCollege, yearRange)

\* topSchools of the mounted ConnectionsMap
TopSchools == TopSchoolsOf(GeoProcessedData.pathways)

\* the first render of a geocode-based page
InitGeo ==
  /\ LoadIdle
  /\ HdrIdle
  /\ FilterIdle
  /\ ProcessIdle
  /\ AggIdle
  /\ TimerIdle
  /\ CoordIdle
  /\ page \in GeoPages
  /\ lib = "none"
  /\ currentYear = 0
  /\ loadState = "pending"
  /\ recruitingData = NoArray
  /\ loading = TRUE
  /\ error = FALSE
  /\ selectedCollege = S_Alabama
  /\ selectedYears = <<0, 0>>
  /\ viewMode = "none"
  /\ colleges = <<>>
  /\ yearRange = <<2020, 2025>>
  /\ allData = NoArray
  /\ geocodeData = NoLookup
  /\ showAllColleges = FALSE
  /\ mapType = IF page = "CirclesMap" THEN "cities" ELSE "none"

\* the `complete` callback of Papa.parse, after both fetches
GeoLoadCompletes(data, geo) ==
  /\ loadState = "pending"
  /\ loadState' = "fulfilled"
  /\ allData' = Array(data)
  /\ geocodeData' = geo
  /\ loading' = FALSE
  /\ UNCHANGED <<page, lib, currentYear, recruitingData, error, selectedCollege,
                 selectedYears, viewMode, colleges, yearRange, showAllColleges, mapType>>
  /\ UNCHANGED <<loadVars, hdrVars, filterVars, processVars, aggVars, timerVars, coordVars>>

\* a fetch rejects or the CSV does not parse: the catch block or the `error`
\* callback
GeoLoadFails ==
  /\ loadState = "pending"
  /\ loadState' = "rejected"
  /\ error' = TRUE
  /\ loading' = FALSE
  /\ UNCHANGED <<page, lib, currentYear, recruitingData, selectedCollege,
                 selectedYears, viewMode, colleges, yearRange, geoVars>>
  /\ UNCHANGED <<loadVars, hdrVars, filterVars, processVars, aggVars, timerVars, coordVars>>

\* the college Select, disabled while all colleges are shown: one of
\* availableColleges
GeoSetSelectedCollege(college) ==
  /\ page \in GeoPages
  /\ ControlsShown
  /\ ~showAllColleges
  /\ mapType # "colleges"
  /\ college \in AvailableColleges(allData, geocodeData)
  /\ selectedCollege' = college
  /\ UNCHANGED <<page, lib, currentYear, loadState, recruitingData, loading, error,
                 selectedYears, viewMode, colleges, yearRange, geoVars>>
  /\ UNCHANGED <<loadVars, hdrVars, filterVars, processVars, aggVars, timerVars, coordVars>>

\* the Slider, between dataYearRange.min and dataYearRange.max: a range, or
\* one year when ConnectionsMap shows all colleges
GeoSetYearRange(lo, hi) ==
  /\ page \in GeoPages
  /\ ControlsShown
  /\ DataYearRange(allData).min <= lo
  /\ lo <= hi
  /\ hi <= DataYearRange(allData).max
  /\ (page = "GeoConnectionsMap" /\ showAllColleges) => lo = hi
  /\ yearRange' = <<lo, hi>>
  /\ UNCHANGED <<page, lib, currentYear, loadState, recruitingData, loading, error,
                 selectedCollege, selectedYears, viewMode, colleges, geoVars>>
  /\ UNCHANGED <<loadVars, hdrVars, filterVars, processVars, aggVars, timerVars, coordVars>>

\* the "Show All Colleges" checkbox, disabled on the colleges map
GeoSetShowAllColleges(checked) ==
  /\ page \in GeoPages
  /\ ControlsShown
  /\ mapType # "colleges"
  /\ showAllColleges' = checked
  /\ UNCHANGED <<page, lib, currentYear, loadState, recruitingData, loading, error,
                 selectedCollege, selectedYears, viewMode, colleges, yearRange,
                 allData, geocodeData, mapType>>
  /\ UNCHANGED <<loadVars, hdrVars, filterVars, processVars, aggVars, timerVars, coordVars>>

\* the "Map Type" Select of CirclesMap
SetMapType(type) ==
  /\ page = "CirclesMap"
  /\ ControlsShown
  /\ mapType' = type
  /\ UNCHANGED <<page, lib, currentYear, loadState, recruitingData, loading, error,
                 selectedCollege, selectedYears, viewMode, colleges, yearRange,
                 allData, geocodeData, showAllColleges>>
  /\ UNCHANGED <<loadVars, hdrVars, filterVars, processVars, aggVars, timerVars, coordVars>>

NextGeo ==
  \/ \E data \in GeoData, geo \in GeoLookups : GeoLoadCompletes(data, geo)
  \/ GeoLoadFails
  \/ \E college \in {S_Alabama, S_OhioState} : GeoSetSelectedCollege(college)
  \/ \E lo \in SliderYears, hi \in SliderYears : GeoSetYearRange(lo, hi)
  \/ \E checked \in BOOLEAN : GeoSetShowAllColleges(checked)
  \/ \E type \in {"cities", "colleges"} : SetMapType(type)

SpecGeo == InitGeo /\ [][NextGeo]_vars

\* the sum of a numeric field over the entries of an array
RECURSIVE SumField(_, _)
SumField(entries, f) ==
  IF entries = <<>> THEN 0
  ELSE entries[1][f] + SumField(Tail(entries), f)

\* the rows of allData that the mounted ConnectionsMap counts in a pathway
\* or in an edge point
CountedRows ==
  IF allData.isNull \/ geocodeData.isNull THEN <<>>
  ELSE SelectSeq(ConnectionsCollegeData(allData.arr, showAllColleges, selectedCollege,
                                        yearRange),
                 LAMBDA row : \/ CategorizeConnection(row) = "continental"
                              \/ CollegeSelected(row, showAllColleges, selectedCollege))

\* C23: in the geocode-based ConnectionsMap every recruit counted in a
\* displayed pathway or in an edge point is committed to the selected college,
\* unless all colleges are shown, and has class_year within the selected
\* year range.
C23_CountedMatchSelection ==
  page = "GeoConnectionsMap" =>
    /\ SumField(GeoProcessedData.pathways, "recruit_count")
         + SumField(GeoProcessedData.edgePoints, "total_count") = Len(CountedRows)
    /\ \A i \in DOMAIN CountedRows :
         /\ CollegeSelected(CountedRows[i], showAllColleges, selectedCollege)
         /\ YearWithin(CountedRows[i], yearRange[1], yearRange[2])

\* the recruits of the displayed pathways of one high school, by name and state
SchoolTotal(shown, name, state) ==
  SumField(SelectSeq(shown, LAMBDA p : p.hs_name = name /\ p.hs_state = state),
           "recruit_count")

\* C26: the top schools list of ConnectionsMap has at most ten entries (here
\* TopLimit), in non-increasing order of count; the count of each entry is
\* the sum of recruit_count over the displayed pathways with that school name
\* and state, and no school left out has a greater count than a listed one.
C26_TopSchools ==
  page = "GeoConnectionsMap" =>
    LET shown == GeoProcessedData.pathways
        top   == TopSchools
    IN /\ Len(top) <= TopLimit
       /\ \A i \in 1..(Len(top) - 1) : top[i].count >= top[i + 1].count
       /\ \A i \in DOMAIN top :
            \E k \in DOMAIN shown :
              /\ top[i].school = SchoolLabel(shown[k].hs_name, shown[k].hs_state)
              /\ top[i].count = SchoolTotal(shown, shown[k].hs_name, shown[k].hs_state)
       /\ \A k \in DOMAIN shown :
            (\A i \in DOMAIN top :
               top[i].school # SchoolLabel(shown[k].hs_name, shown[k].hs_state)) =>
              \A i \in DOMAIN top :
                SchoolTotal(shown, shown[k].hs_name, shown[k].hs_state) <= top[i].count

\* the colleges the rows of the model commit to
GeoColleges == {S_Alabama, S_OhioState}

\* the filtered rows of the mounted CirclesMap that commit to a college
FilteredRowsOf(college) ==
  IF allData.isNull \/ geocodeData.isNull THEN <<>>
  ELSE SelectSeq(CirclesCollegeData(allData.arr, showAllColleges, selectedCollege,
                                    yearRange, mapType),
                 LAMBDA row : Field(row, "committedTo") = college)

\* a college appears in the college aggregate of the mounted CirclesMap
Appears(college) ==
  \E i \in DOMAIN GeoProcessedData.colleges :
    GeoProcessedData.colleges[i].college = college

\* the count of each college of the aggregate is the number of filtered rows
\* committed to it
CountsAreFilteredRows ==
  \A i \in DOMAIN GeoProcessedData.colleges :
    GeoProcessedData.colleges[i].count
      = Len(FilteredRowsOf(GeoProcessedData.colleges[i].college))

\* on the colleges map the aggregate is the same for every selected college
SelectionIgnored ==
  mapType = "colleges" =>
    \A college \in GeoColleges :
      CirclesProcessedData(allData, geocodeData, showAllColleges, college,
                           yearRange, mapType).colleges = GeoProcessedData.colleges

\* C30 as stated: in CirclesMap a college appears in the college aggregate
\* if and only if it has an entry in the geocode lookup and at least one
\* filtered row; its count is the number of filtered rows committed to it;
\* on the colleges map the result does not depend on the selected college.
C30_CollegeAggregate ==
  page = "CirclesMap" =>
    /\ \A college \in GeoColleges :
         Appears(college) <=>
           (HasEntry(geocodeData, college) /\ FilteredRowsOf(college) # <<>>)
    /\ CountsAreFilteredRows
    /\ SelectionIgnored

\* C30 amended: a college appears if and only if its entry in the geocode
\* lookup is not null and at least one filtered row commits to it; the count
\* and the independence of the selected college are as stated.
C30_CollegeAggregateUsable ==
  page = "CirclesMap" =>
    /\ \A college \in GeoColleges :
         Appears(college) <=>
           (TruthyEntry(geocodeData, college) /\ FilteredRowsOf(college) # <<>>)
    /\ CountsAreFilteredRows
    /\ SelectionIgnored

\* C30 witness: the colleges map of CirclesMap shows a college, and leaves
\* out a college that filtered rows commit to but whose entry is null
C30_Witness ==
  /\ page = "CirclesMap"
  /\ mapType = "colleges"
  /\ GeoProcessedData.colleges # <<>>
  /\ selectedCollege = S_Alabama
  /\ \E college \in GeoColleges :
       /\ FilteredRowsOf(college) # <<>>
       /\ HasEntry(geocodeData, college)
       /\ \A i \in DOMAIN GeoProcessedData.colleges :
            GeoProcessedData.colleges[i].college # college

(***************************************************************************)
(* debounce and throttle                                                   *)
(***************************************************************************)

MaxTime == 3        \* the function is called up to this time
MaxWait == 2        \* the greatest `wait` or `limit`
MaxTimerCalls == 3  \* calls of the debounced or throttled function

\* the arguments a call passes
CallArgs == {"a", "b"}

\* the calls made so far
CallsMade == Len(SelectSeq(elog, LAMBDA e : e.kind = "call"))

\* clearTimeout(id): nothing when id is undefined or the timer is gone
ClearTimeout(ts, id) ==
  IF id \in DOMAIN ts THEN [ts EXCEPT ![id].live = FALSE] ELSE ts

\* setTimeout(callback, delay): the timer table with the new timer, whose id
\* is its index; the callback keeps the args of the call that made it
SetTimeout(ts, delay, args) ==
  Append(ts, [due |-> now + delay, live |-> TRUE, args |-> args])

\* a timer whose callback the host may run now
Due(id) == id \in DOMAIN timers /\ timers[id].live /\ timers[id].due <= now

InitTimers(which) ==
  /\ LoadIdle
  /\ HdrIdle
  /\ FilterIdle
  /\ ProcessIdle
  /\ AggIdle
  /\ PageIdle
  /\ GeoIdle
  /\ CoordIdle
  /\ util = which
  /\ now = 0
  /\ wait \in 0..MaxWait
  /\ timers = <<>>
  /\ timeout = 0
  /\ inThrottle = FALSE
  /\ elog = <<>>

\* debounce(func, wait) was called: `timeout` is undefined
InitDebounce == InitTimers("debounce")

\* throttle(func, limit) was called: `inThrottle` is undefined
InitThrottle == InitTimers("throttle")

\* time passes, unless a timer is due: the host runs due callbacks first
Tick ==
  /\ now < MaxTime + MaxWait
  /\ \A id \in DOMAIN timers : ~Due(id)
  /\ now' = now + 1
  /\ UNCHANGED <<util, wait, timers, timeout, inThrottle, elog>>
  /\ UNCHANGED <<loadVars, hdrVars, filterVars, processVars, aggVars, pageVars,
                 geoVars, coordVars>>

\* an executedFunction that leaves the pending timer alone
DebouncedCallNoClear(args) ==
  /\ util = "debounce"
  /\ now <= MaxTime
  /\ CallsMade < MaxTimerCalls
  /\ timers' = SetTimeout(timers, wait, args)
  /\ timeout' = Len(timers) + 1
  /\ elog' = Append(elog, [kind |-> "call", at |-> now, args |-> args])
  /\ UNCHANGED <<util, now, wait, inThrottle>>
  /\ UNCHANGED <<loadVars, hdrVars, filterVars, processVars, aggVars, pageVars,
                 geoVars, coordVars>>

\* executedFunction(...args) of debounce: clearTimeout(timeout);
\* timeout = setTimeout(later, wait)
DebouncedCall(args) ==
  /\ util = "debounce"
  /\ now <= MaxTime
  /\ CallsMade < MaxTimerCalls
  /\ timers' = SetTimeout(ClearTimeout(timers, timeout), wait, args)
  /\ timeout' = Len(timers) + 1
  /\ elog' = Append(elog, [kind |-> "call", at |-> now, args |-> args])
  /\ UNCHANGED <<util, now, wait, inThrottle>>
  /\ UNCHANGED <<loadVars, hdrVars, filterVars, processVars, aggVars, pageVars,
                 geoVars, coordVars>>

\* the host runs `later` of a due timer: clearTimeout(timeout); func(...args)
Later(id) ==
  /\ util = "debounce"
  /\ Due(id)
  /\ timers' = ClearTimeout([timers EXCEPT ![id].live = FALSE], timeout)
  /\ elog' = Append(elog, [kind |-> "invoke", at |-> now, args |-> timers[id].args])
  /\ UNCHANGED <<util, now, wait, timeout, inThrottle>>
  /\ UNCHANGED <<loadVars, hdrVars, filterVars, processVars, aggVars, pageVars,
                 geoVars, coordVars>>

NextDebounce ==
  \/ \E args \in CallArgs : DebouncedCall(args)
  \/ \E id \in DOMAIN timers : Later(id)
  \/ Tick

\* the host runs a callback that is due, and time passes
SpecDebounce ==
  /\ InitDebounce
  /\ [][NextDebounce]_vars
  /\ WF_vars(\E id \in DOMAIN timers : Later(id))
  /\ WF_vars(Tick)

\* an executedFunction that never closes the window
ThrottledCallNoWindow(args) ==
  /\ util = "throttle"
  /\ now <= MaxTime
  /\ CallsMade < MaxTimerCalls
  /\ elog' = elog \o <<[kind |-> "call", at |-> now, args |-> args],
                      [kind |-> "invoke", at |-> now, args |-> args]>>
  /\ UNCHANGED <<util, now, wait, timers, timeout, inThrottle>>
  /\ UNCHANGED <<loadVars, hdrVars, filterVars, processVars, aggVars, pageVars,
                 geoVars, coordVars>>

\* executedFunction(...args) of throttle: if (!inThrottle) { func.apply(this,
\* args); inThrottle = true; setTimeout(() => inThrottle = false, limit) }
ThrottledCall(args) ==
  /\ util = "throttle"
  /\ now <= MaxTime
  /\ CallsMade < MaxTimerCalls
  /\ IF ~inThrottle
       THEN /\ elog' = elog \o <<[kind |-> "call", at |-> now, args |-> args],
                                 [kind |-> "invoke", at |-> now, args |-> args]>>
            /\ inThrottle' = TRUE
            /\ timers' = SetTimeout(timers, wait, <<>>)
       ELSE /\ elog' = Append(elog, [kind |-> "call", at |-> now, args |-> args])
            /\ UNCHANGED <<inThrottle, timers>>
  /\ UNCHANGED <<util, now, wait, timeout>>
  /\ UNCHANGED <<loadVars, hdrVars, filterVars, processVars, aggVars, pageVars,
                 geoVars, coordVars>>

\* the host runs the callback of a due timer: inThrottle = false
Release(id) ==
  /\ util = "throttle"
  /\ Due(id)
  /\ timers' = [timers EXCEPT ![id].live = FALSE]
  /\ inThrottle' = FALSE
  /\ UNCHANGED <<util, now, wait, timeout, elog>>
  /\ UNCHANGED <<loadVars, hdrVars, filterVars, processVars, aggVars, pageVars,
                 geoVars, coordVars>>

NextThrottle ==
  \/ \E args \in CallArgs : ThrottledCall(args)
  \/ \E id \in DOMAIN timers : Release(id)
  \/ Tick

SpecThrottle == InitThrottle /\ [][NextThrottle]_vars

Invocations == SelectSeq(elog, LAMBDA e : e.kind = "invoke")

\* the time of the last invocation before position i of the log
LastInvokeBefore(i) ==
  LET earlier == { k \in 1..(i - 1) : elog[k].kind = "invoke" }
  IN elog[CHOOSE k \in earlier : \A j \in earlier : j <= k].at

MaxCoordCalls == 3   \* calls of loadCollegeCoords() in one behaviour

\* an entry of geocode_cache.json whose latitude is missing
NoLatitude == [kind |-> "object", latitude |-> "", longitude |-> "lon"]

\* what response.json() may resolve with: null, an empty object, objects
\* with located, null and incomplete entries
GeocodeBodies ==
  { NoLookup,
    Lookup(<<>>),
    Lookup(<<[key |-> S_Alabama, value |-> Coord]>>),
    Lookup(<<[key |-> S_Alabama, value |-> Coord], [key |-> S_OhioState, value |-> JsonNull]>>),
    Lookup(<<[key |-> S_Alabama, value |-> NoLatitude], [key |-> S_OhioState, value |-> Coord]>>) }

\* {}
EmptyMapping == Lookup(<<>>)

\* the loop over Object.entries(geocodeCache): the entries with data,
\* data.latitude and data.longitude, as { lat, lon }
Converted(body) ==
  LET kept == SelectSeq(body.entries,
                        LAMBDA e : /\ e.value.kind = "object"
                                   /\ e.value.latitude # ""
                                   /\ e.value.longitude # "")
  IN Lookup([i \in 1..Len(kept) |->
               [key   |-> kept[i].key,
                value |-> [lat |-> kept[i].value.latitude,
                           lon |-> kept[i].value.longitude]]])

\* a call that has not returned yet
Running(fetched, at) ==
  [pc |-> at, fetched |-> fetched, outcome |-> "none", ret |-> NoLookup]

\* a call that returned ret
Done(call, outcome, ret) ==
  [call EXCEPT !.pc = "done", !.outcome = outcome, !.ret = ret]

InitCoords ==
  /\ LoadIdle
  /\ HdrIdle
  /\ FilterIdle
  /\ ProcessIdle
  /\ AggIdle
  /\ PageIdle
  /\ GeoIdle
  /\ TimerIdle
  /\ collegeCoords = NoLookup
  /\ coordCalls = <<>>

\* loadCollegeCoords() is called: it returns the cache if (collegeCoords),
\* else it starts the fetch and awaits it
CallLoadCollegeCoords ==
  /\ Len(coordCalls) < MaxCoordCalls
  /\ coordCalls' =
       Append(coordCalls,
              IF ~collegeCoords.isNull
                THEN Done(Running(FALSE, "start"), "cached", collegeCoords)
                ELSE Running(TRUE, "fetch"))
  /\ UNCHANGED collegeCoords
  /\ UNCHANGED <<loadVars, hdrVars, filterVars, processVars, aggVars, pageVars,
                 geoVars, timerVars>>

\* await fetch(...) rejects: the catch block returns {}
FetchRejects(c) ==
  /\ c \in DOMAIN coordCalls
  /\ coordCalls[c].pc = "fetch"
  /\ coordCalls' = [coordCalls EXCEPT ![c] = Done(@, "failed", EmptyMapping)]
  /\ UNCHANGED collegeCoords
  /\ UNCHANGED <<loadVars, hdrVars, filterVars, processVars, aggVars, pageVars,
                 geoVars, timerVars>>

\* await fetch(...) resolves: response.json() is awaited
FetchResolves(c) ==
  /\ c \in DOMAIN coordCalls
  /\ coordCalls[c].pc = "fetch"
  /\ coordCalls' = [coordCalls EXCEPT ![c].pc = "json"]
  /\ UNCHANGED collegeCoords
  /\ UNCHANGED <<loadVars, hdrVars, filterVars, processVars, aggVars, pageVars,
                 geoVars, timerVars>>

\* await response.json() rejects: the catch block returns {}
JsonRejects(c) ==
  /\ c \in DOMAIN coordCalls
  /\ coordCalls[c].pc = "json"
  /\ coordCalls' = [coordCalls EXCEPT ![c] = Done(@, "failed", EmptyMapping)]
  /\ UNCHANGED collegeCoords
  /\ UNCHANGED <<loadVars, hdrVars, filterVars, processVars, aggVars, pageVars,
                 geoVars, timerVars>>

\* await response.json() resolves with body: collegeCoords = {} is assigned,
\* then Object.entries(body) throws on null and the catch block returns {},
\* or the loop fills collegeCoords, which is returned
JsonResolves(c, body) ==
  /\ c \in DOMAIN coordCalls
  /\ coordCalls[c].pc = "json"
  /\ IF body.isNull
       THEN /\ collegeCoords' = EmptyMapping
            /\ coordCalls' = [coordCalls EXCEPT ![c] = Done(@, "failed", EmptyMapping)]
       ELSE /\ collegeCoords' = Converted(body)
            /\ coordCalls' = [coordCalls EXCEPT ![c] = Done(@, "ok", Converted(body))]
  /\ UNCHANGED <<loadVars, hdrVars, filterVars, processVars, aggVars, pageVars,
                 geoVars, timerVars>>

NextCoords ==
  \/ CallLoadCollegeCoords
  \/ \E c \in DOMAIN coordCalls : FetchRejects(c)
  \/ \E c \in DOMAIN coordCalls : FetchResolves(c)
  \/ \E c \in DOMAIN coordCalls : JsonRejects(c)
  \/ \E c \in DOMAIN coordCalls, body \in GeocodeBodies : JsonResolves(c, body)

SpecCoords == InitCoords /\ [][NextCoords]_vars

\* C29: loadCollegeCoords caches only a mapping it built: a call whose fetch
\* or conversion fails returns an empty mapping and leaves the cache as it
\* was, so that a call made while no call has succeeded fetches; a call made
\* after a call has succeeded returns the cached mapping and does not fetch.
C29_CachesOnlySuccess ==
  [][ /\ \A c \in DOMAIN coordCalls :
           (coordCalls[c].pc # "done" /\ coordCalls'[c].outcome = "failed") =>
             /\ coordCalls'[c].ret = EmptyMapping
             /\ collegeCoords' = collegeCoords
      /\ Len(coordCalls') > Len(coordCalls) =>
           LET new == coordCalls'[Len(coordCalls')]
           IN IF \E c \in DOMAIN coordCalls : coordCalls[c].outcome = "ok"
                THEN /\ new.outcome = "cached"
                     /\ ~new.fetched
                     /\ ~collegeCoords.isNull
                     /\ new.ret = collegeCoords
                ELSE new.fetched ]_vars

====
